--------------------------- MODULE ReclaimProofs ---------------------------
(***************************************************************************)
(* Theorems about the heap and about creation and end of threads, for any   *)
(* threads, sizes and requests.  The inductive invariant Inv adds to the    *)
(* three invariants of the run where each call stands (StepsExact) and that *)
(* no two calls end the same thread (EndedOnce, from EndsAlone).  The first *)
(* half is about Heap alone: each call of mem.c keeps a heap right.  The    *)
(* second follows who owns which block through the steps of Reclaim.        *)
(***************************************************************************)
EXTENDS Reclaim, IntrusiveListProofs

\* What the code of mem.c relies on when it is called, and leaves behind.
Typed(mem) == DOMAIN mem \subseteq 0 .. End /\ mem \in [DOMAIN mem -> Headers]

-----------------------------------------------------------------------------
(* The first and the last of some numbers. *)

(* A set of numbers with an element has a least one.                        *)
LEMMA MinExists ==
  ASSUME NEW S \in SUBSET Nat, S # {}
  PROVE  /\ Min(S) \in S
         /\ \A x \in S : Min(S) <= x
<1>1. PICK m \in S : \A x \in S : ~(<<x, m>> \in OpToRel(<, Nat))
  BY NatLessThanWellFounded, WFMin, Zenon
<1>2. ASSUME NEW x \in S PROVE m <= x
  <2>1. x \in Nat /\ m \in Nat
    OBVIOUS
  <2>2. ~(x < m)
    BY <1>1, <2>1 DEF OpToRel
  <2> QED
    BY <2>1, <2>2
<1>3. \E x \in S : \A y \in S : x <= y
  BY <1>2
<1> QED
  BY <1>3, Zenon DEF Min

(* The least element, once it is found, is Min.                             *)
LEMMA MinIs ==
  ASSUME NEW S \in SUBSET Nat, NEW m \in S, \A x \in S : m <= x
  PROVE  Min(S) = m
<1>1. Min(S) \in S /\ \A x \in S : Min(S) <= x
  BY MinExists
<1>2. Min(S) <= m /\ m <= Min(S) /\ m \in Nat /\ Min(S) \in Nat
  BY <1>1
<1> QED
  BY <1>2

(* Min of a set to which one number was added.                              *)
LEMMA MinWith ==
  ASSUME NEW S \in SUBSET Nat, S # {}, NEW r \in Nat
  PROVE  Min(S \union {r}) = IF r < Min(S) THEN r ELSE Min(S)
<1> DEFINE T == S \union {r}
           m == IF r < Min(S) THEN r ELSE Min(S)
<1>1. Min(S) \in S /\ \A x \in S : Min(S) <= x
  BY MinExists
<1>2. m \in T /\ T \in SUBSET Nat
  BY <1>1
<1>3. ASSUME NEW x \in T PROVE m <= x
  <2>1. x \in Nat /\ Min(S) \in Nat
    BY <1>1
  <2>2. CASE x \in S
    BY <2>1, <2>2, <1>1
  <2>3. CASE x = r
    BY <2>1, <2>3
  <2> QED
    BY <2>2, <2>3
<1> HIDE DEF m, T
<1>4. Min(T) = m
  BY <1>2, <1>3, MinIs
<1> QED
  BY <1>4 DEF m, T

(* A set of numbers up to a bound has a largest one.                        *)
LEMMA MaxExists ==
  ASSUME NEW n \in Nat, NEW S \in SUBSET (0 .. n), S # {}
  PROVE  \E m \in S : \A x \in S : x <= m
<1> DEFINE T == {n - x : x \in S}
<1>1. T \in SUBSET Nat /\ T # {}
  <2>1. ASSUME NEW x \in S PROVE n - x \in Nat
    <3>1. x \in 0 .. n
      OBVIOUS
    <3> QED
      BY <3>1
  <2> QED
    BY <2>1
<1>2. Min(T) \in T /\ \A y \in T : Min(T) <= y
  BY <1>1, MinExists
<1>3. PICK m \in S : Min(T) = n - m
  BY <1>2
<1>4. ASSUME NEW x \in S PROVE x <= m
  <2>1. n - m <= n - x
    BY <1>2, <1>3
  <2>2. x \in 0 .. n /\ m \in 0 .. n
    OBVIOUS
  <2> QED
    BY <2>1, <2>2
<1> QED
  BY <1>4

-----------------------------------------------------------------------------
(* What Linked says of one block. *)

(* The constants and heap_end are numbers.                                  *)
LEMMA EndType == End \in Nat \ {0} /\ Header \in Nat \ {0} /\ MinSize \in Nat /\ Size \in Nat
BY HeapConstants DEF End

(* A header made of a flag and two offsets is a header.                     *)
LEMMA HeaderType ==
  ASSUME NEW mem, Typed(mem), NEW p \in DOMAIN mem
  PROVE  /\ p \in Nat /\ p <= End
         /\ mem[p].used \in BOOLEAN
         /\ mem[p].next \in Nat /\ mem[p].next <= End
         /\ mem[p].prev \in Nat /\ mem[p].prev <= End
         /\ mem[p] = Block(mem[p].used, mem[p].next, mem[p].prev)
<1>1. p \in 0 .. End /\ mem[p] \in Headers
  BY DEF Typed
<1> QED
  BY <1>1, EndType DEF Headers, Block

(* What Linked says of one block: it ends behind its header, where the next *)
(* one starts.                                                              *)
LEMMA BlockFacts ==
  ASSUME NEW mem, Typed(mem), Linked(mem), NEW p \in Blocks(mem)
  PROVE  /\ p \in DOMAIN mem /\ p # End
         /\ mem[p].next \in DOMAIN mem
         /\ mem[p].next >= p + Header /\ p < mem[p].next
         /\ \A q \in DOMAIN mem : q <= p \/ q >= mem[p].next
         /\ mem[p].next # End => mem[mem[p].next].prev = p /\ mem[p].next \in Blocks(mem)
<1>1. p \in DOMAIN mem /\ p # End
  BY DEF Blocks
<1>2. p \in Nat /\ mem[p].next \in Nat
  BY <1>1, HeaderType
<1>3. /\ mem[p].next \in DOMAIN mem
      /\ mem[p].next >= p + Header
      /\ \A q \in DOMAIN mem : q <= p \/ q >= mem[p].next
      /\ mem[p].next # End => mem[mem[p].next].prev = p
  BY DEF Linked
<1> QED
  BY <1>1, <1>2, <1>3, EndType DEF Blocks

(* Two blocks do not overlap and have different ends.                       *)
LEMMA BlocksApart ==
  ASSUME NEW mem, Typed(mem), Linked(mem),
         NEW p \in Blocks(mem), NEW q \in Blocks(mem), p # q
  PROVE  /\ mem[p].next <= q \/ mem[q].next <= p
         /\ mem[p].next # mem[q].next
<1>1. /\ p \in DOMAIN mem /\ p \in Nat /\ mem[p].next \in Nat
      /\ p < mem[p].next
      /\ \A r \in DOMAIN mem : r <= p \/ r >= mem[p].next
  BY BlockFacts, HeaderType
<1>2. /\ q \in DOMAIN mem /\ q \in Nat /\ mem[q].next \in Nat
      /\ q < mem[q].next
      /\ \A r \in DOMAIN mem : r <= q \/ r >= mem[q].next
  BY BlockFacts, HeaderType
<1> QED
  BY <1>1, <1>2

(* A header that is not the first one has a block in front of it, the one   *)
(* that prev names.                                                         *)
LEMMA Predecessor ==
  ASSUME NEW mem, Typed(mem), Linked(mem), NEW p \in DOMAIN mem, p # 0
  PROVE  \E q \in Blocks(mem) : /\ mem[q].next = p
                                /\ q < p
                                /\ p # End => mem[p].prev = q
<1> DEFINE S == {q \in DOMAIN mem : q < p}
<1>1. p \in Nat /\ p <= End /\ DOMAIN mem \subseteq 0 .. End /\ 0 \in DOMAIN mem
  BY HeaderType DEF Linked, Typed
<1>2. S \in SUBSET (0 .. End) /\ S # {}
  BY <1>1
<1>3. PICK q \in S : \A x \in S : x <= q
  BY <1>2, EndType, MaxExists
<1>4. q \in Blocks(mem) /\ q \in Nat /\ q < p
  BY <1>1, <1>3 DEF Blocks
<1>5. /\ mem[q].next \in DOMAIN mem /\ q < mem[q].next
      /\ p <= q \/ p >= mem[q].next
      /\ mem[q].next # End => mem[mem[q].next].prev = q
  BY <1>4, BlockFacts
<1>6. mem[q].next \in Nat
  BY <1>4, <1>5, HeaderType DEF Blocks
<1>7. mem[q].next = p
  BY <1>1, <1>3, <1>4, <1>5, <1>6
<1> QED
  BY <1>4, <1>5, <1>7

-----------------------------------------------------------------------------
(* Headers that are changed. *)

(* The fields of a header that Block makes.                                 *)
LEMMA BlockFields ==
  /\ \A u, n, p : /\ Block(u, n, p).used = u
                  /\ Block(u, n, p).next = n
                  /\ Block(u, n, p).prev = p
  /\ \A u \in BOOLEAN, n, p \in 0 .. End : Block(u, n, p) \in Headers
BY DEF Block, Headers

(* A block is marked as used or as free.                                    *)
LEMMA MarkLinked ==
  ASSUME NEW mem, Typed(mem), Linked(mem), NEW p \in Blocks(mem), NEW u \in BOOLEAN
  PROVE  LET m == WithBlock(mem, p, Block(u, mem[p].next, mem[p].prev))
         IN  /\ Typed(m) /\ Linked(m)
             /\ DOMAIN m = DOMAIN mem
             /\ m[p].used = u
             /\ \A q \in DOMAIN mem : m[q].next = mem[q].next
             /\ \A q \in DOMAIN mem \ {p} : m[q].used = mem[q].used
<1> DEFINE m == WithBlock(mem, p, Block(u, mem[p].next, mem[p].prev))
<1>1. p \in DOMAIN mem /\ p # End
  BY DEF Blocks
<1>2. DOMAIN m = DOMAIN mem
  BY <1>1 DEF WithBlock
<1>3. m[p] = Block(u, mem[p].next, mem[p].prev)
  BY <1>1 DEF WithBlock
<1>4. \A q \in DOMAIN mem \ {p} : m[q] = mem[q]
  BY DEF WithBlock
<1>5. m = [q \in DOMAIN m |-> m[q]]
  BY DEF WithBlock
<1> HIDE DEF m
<1>6. m[p].used = u /\ m[p].next = mem[p].next /\ m[p].prev = mem[p].prev
  BY <1>3 DEF Block
<1>7. \A q \in DOMAIN mem : m[q].next = mem[q].next /\ m[q].prev = mem[q].prev
  BY <1>4, <1>6
<1>8. ASSUME NEW q \in DOMAIN mem PROVE m[q] \in Headers
  <2>1. mem[q] \in Headers /\ mem[p] \in Headers
    BY <1>1 DEF Typed
  <2>2. CASE q = p
    BY <2>1, <2>2, <1>3 DEF Headers, Block
  <2> QED
    BY <2>1, <2>2, <1>4
<1>9. Typed(m)
  BY <1>2, <1>5, <1>8 DEF Typed
<1>10. Blocks(m) = Blocks(mem)
  BY <1>2 DEF Blocks
<1>11. m[End].used /\ m[End].next = End
  BY <1>1, <1>4 DEF Linked
<1>12. m[0].prev = 0
  BY <1>7 DEF Linked
<1>13. ASSUME NEW q \in Blocks(m)
       PROVE  LET n == m[q].next IN
              /\ n \in DOMAIN m /\ n >= q + Header
              /\ \A r \in DOMAIN m : r <= q \/ r >= n
              /\ n # End => m[n].prev = q
  <2>1. q \in Blocks(mem) /\ m[q].next = mem[q].next
    BY <1>7, <1>10 DEF Blocks
  <2>2. /\ mem[q].next \in DOMAIN mem /\ mem[q].next >= q + Header
        /\ \A r \in DOMAIN mem : r <= q \/ r >= mem[q].next
        /\ mem[q].next # End => mem[mem[q].next].prev = q
    BY <2>1, BlockFacts
  <2> QED
    BY <2>1, <2>2, <1>2, <1>7
<1>14. Linked(m)
  BY <1>2, <1>11, <1>12, <1>13 DEF Linked
<1> QED
  BY <1>2, <1>4, <1>6, <1>7, <1>9, <1>14 DEF m

\* The block at p in mem is two in m, the second free.
CutOff(mem, m, p, rest) ==
  /\ Typed(m) /\ Linked(m)
  /\ rest \notin DOMAIN mem /\ rest < End
  /\ DOMAIN m = DOMAIN mem \union {rest}
  /\ m[p].next = rest
  /\ m[rest].used = FALSE /\ m[rest].next = mem[p].next
  /\ \A q \in DOMAIN mem : m[q].used = mem[q].used
  /\ \A q \in DOMAIN mem \ {p} : m[q].next = mem[q].next

(* The rest of a block is cut off.                                          *)
LEMMA SplitLinked ==
  ASSUME NEW mem, Typed(mem), Linked(mem), NEW p \in Blocks(mem), NEW rest \in Nat,
         p + Header <= rest, rest + Header <= mem[p].next
  PROVE  CutOff(mem, Split(mem, p, rest), p, rest)
<1> DEFINE m == Split(mem, p, rest)
           n == mem[p].next
           nextAt(q) == IF q = p THEN rest ELSE mem[q].next
           prevAt(q) == IF q = n /\ q # End THEN rest ELSE mem[q].prev
<1>1. /\ p \in DOMAIN mem /\ p # End /\ p \in Nat
      /\ n \in DOMAIN mem /\ n \in Nat /\ n <= End /\ p < n
      /\ \A q \in DOMAIN mem : q <= p \/ q >= n
  BY BlockFacts, HeaderType
<1>2. p < rest /\ rest < n
  BY <1>1, EndType
<1>3. rest \notin DOMAIN mem /\ rest < End /\ rest # End /\ rest # p /\ rest # n
  BY <1>1, <1>2, EndType
<1>4. DOMAIN m = DOMAIN mem \union {rest}
  BY DEF Split
<1>5. m[rest] = Block(FALSE, n, p)
  BY DEF Split
<1>6. \A q \in DOMAIN mem : m[q] = Block(mem[q].used, nextAt(q), prevAt(q))
  BY <1>3 DEF Split
<1>7. m = [q \in DOMAIN m |-> m[q]]
  BY DEF Split
<1> HIDE DEF m, nextAt, prevAt
<1>8. m[rest].used = FALSE /\ m[rest].next = n /\ m[rest].prev = p
  BY <1>5 DEF Block
<1>9. \A q \in DOMAIN mem :
        /\ m[q].used = mem[q].used
        /\ m[q].next = IF q = p THEN rest ELSE mem[q].next
        /\ m[q].prev = IF q = n /\ q # End THEN rest ELSE mem[q].prev
  <2>1. ASSUME NEW q \in DOMAIN mem
        PROVE m[q].used = mem[q].used /\ m[q].next = nextAt(q) /\ m[q].prev = prevAt(q)
    BY <1>6, BlockFields
  <2> QED
    BY <2>1 DEF nextAt, prevAt
<1> HIDE DEF n
<1>10. ASSUME NEW q \in DOMAIN m PROVE m[q] \in Headers
  <2>1. CASE q = rest
    BY <2>1, <1>1, <1>2, <1>3, <1>5, EndType DEF Headers, Block
  <2>2. CASE q # rest
    <3>1. q \in DOMAIN mem
      BY <2>2, <1>4
    <3>2. /\ mem[q].used \in BOOLEAN
          /\ mem[q].next \in 0 .. End /\ mem[q].prev \in 0 .. End /\ rest \in 0 .. End
      BY <3>1, HeaderType, <1>3, EndType
    <3>3. nextAt(q) \in 0 .. End /\ prevAt(q) \in 0 .. End
      BY <3>2 DEF nextAt, prevAt
    <3> QED
      BY <3>1, <3>2, <3>3, <1>6, BlockFields
  <2> QED
    BY <2>1, <2>2
<1>11. Typed(m)
  <2>1. DOMAIN m \subseteq 0 .. End
    BY <1>3, <1>4, EndType DEF Typed
  <2> QED
    BY <2>1, <1>7, <1>10 DEF Typed
<1>12. {0, End} \subseteq DOMAIN m
  BY <1>4 DEF Linked
<1>13. m[0].prev = 0
  <2>1. 0 \in DOMAIN mem /\ mem[0].prev = 0 /\ 0 # n
    BY <1>1 DEF Linked
  <2> QED
    BY <2>1, <1>9
<1>14. m[End].used /\ m[End].next = End
  <2>1. End \in DOMAIN mem /\ mem[End].used /\ mem[End].next = End
    BY DEF Linked
  <2> QED
    BY <2>1, <1>1, <1>9
<1>15. ASSUME NEW q \in Blocks(m)
       PROVE  LET x == m[q].next IN
              /\ x \in DOMAIN m /\ x >= q + Header
              /\ \A r \in DOMAIN m : r <= q \/ r >= x
              /\ x # End => m[x].prev = q
  <2>1. CASE q = rest
    <3>1. n # End => m[n].prev = rest
      BY <1>1, <1>9
    <3>2. n >= rest + Header
      BY DEF n
    <3>3. ASSUME NEW r \in DOMAIN m PROVE r <= rest \/ r >= n
      <4>1. CASE r = rest
        BY <4>1
      <4>2. CASE r # rest
        <5>1. r \in DOMAIN mem
          BY <4>2, <1>4
        <5>2. r \in Nat
          BY <5>1, HeaderType
        <5> QED
          BY <5>1, <5>2, <1>1, <1>2
      <4> QED
        BY <4>1, <4>2
    <3> QED
      BY <2>1, <3>1, <3>2, <3>3, <1>1, <1>4, <1>8
  <2>2. CASE q = p
    <3>1. m[q].next = rest
      BY <2>2, <1>1, <1>9
    <3>2. rest >= p + Header
      BY <1>1, EndType
    <3>3. ASSUME NEW r \in DOMAIN m PROVE r <= p \/ r >= rest
      <4>1. CASE r = rest
        BY <4>1
      <4>2. CASE r # rest
        <5>1. r \in DOMAIN mem
          BY <4>2, <1>4
        <5>2. r \in Nat
          BY <5>1, HeaderType
        <5> QED
          BY <5>1, <5>2, <1>1, <1>2
      <4> QED
        BY <4>1, <4>2
    <3> QED
      BY <2>2, <3>1, <3>2, <3>3, <1>4, <1>8
  <2>3. CASE q # rest /\ q # p
    <3>1. q \in Blocks(mem) /\ q \in DOMAIN mem
      BY <2>3, <1>4 DEF Blocks
    <3>2. /\ q \in Nat /\ q # End
          /\ mem[q].next \in DOMAIN mem /\ mem[q].next \in Nat
          /\ mem[q].next >= q + Header
          /\ \A r \in DOMAIN mem : r <= q \/ r >= mem[q].next
          /\ mem[q].next # End => mem[mem[q].next].prev = q
      BY <3>1, BlockFacts, HeaderType
    <3>3. (n <= q \/ mem[q].next <= p) /\ n # mem[q].next
      BY <2>3, <3>1, BlocksApart DEF n
    <3>4. m[q].next = mem[q].next
      BY <2>3, <3>1, <1>9
    <3>5. rest <= q \/ rest >= mem[q].next
      BY <3>2, <3>3, <1>1, <1>2
    <3>6. mem[q].next # End => m[mem[q].next].prev = q
      BY <3>2, <3>3, <1>9
    <3> QED
      BY <3>2, <3>4, <3>5, <3>6, <1>4
  <2> QED
    BY <2>1, <2>2, <2>3
<1>16. Linked(m)
  BY <1>12, <1>13, <1>14, <1>15 DEF Linked
<1>17. m[p].next = rest
  BY <1>1, <1>9
<1> QED
  BY <1>3, <1>4, <1>8, <1>9, <1>11, <1>16, <1>17 DEF m, n, CutOff

(* Two neighbours are joined.                                               *)
LEMMA JoinedLinked ==
  ASSUME NEW h, Typed(h.mem), Linked(h.mem), NEW p \in Blocks(h.mem),
         NEW n \in Blocks(h.mem), h.mem[p].next = n
  PROVE  LET g == Joined(h, p, n)
         IN  /\ Typed(g.mem) /\ Linked(g.mem)
             /\ DOMAIN g.mem = DOMAIN h.mem \ {n}
             /\ p # n /\ p < n
             /\ g.mem[p].next = h.mem[n].next
             /\ \A q \in DOMAIN g.mem : g.mem[q].used = h.mem[q].used
             /\ \A q \in DOMAIN g.mem \ {p} : g.mem[q].next = h.mem[q].next
             /\ g.lfree = IF h.lfree = n THEN p ELSE h.lfree
             /\ g.used = h.used
<1> DEFINE mem == h.mem
           m == Joined(h, p, n).mem
           after == mem[n].next
<1>1. /\ p \in DOMAIN mem /\ p # End /\ p \in Nat
      /\ n \in DOMAIN mem /\ n \in Nat /\ n # End /\ p < n
      /\ n >= p + Header
      /\ \A q \in DOMAIN mem : q <= p \/ q >= n
  BY BlockFacts, HeaderType
<1>2. /\ after \in DOMAIN mem /\ after \in Nat /\ n < after
      /\ after >= n + Header
      /\ \A q \in DOMAIN mem : q <= n \/ q >= after
  BY BlockFacts, HeaderType
<1>3. DOMAIN m = DOMAIN mem \ {n}
  BY DEF Joined
<1>4. \A q \in DOMAIN m :
        m[q] = Block(mem[q].used, IF q = p THEN after ELSE mem[q].next,
                     IF q = after THEN p ELSE mem[q].prev)
  BY DEF Joined
<1>5. m = [q \in DOMAIN m |-> m[q]]
  BY DEF Joined
<1>6. /\ Joined(h, p, n).lfree = IF h.lfree = n THEN p ELSE h.lfree
      /\ Joined(h, p, n).used = h.used
  BY DEF Joined
<1> HIDE DEF m
<1>7. \A q \in DOMAIN m :
        /\ m[q].used = mem[q].used
        /\ m[q].next = IF q = p THEN after ELSE mem[q].next
        /\ m[q].prev = IF q = after THEN p ELSE mem[q].prev
  BY <1>4 DEF Block
<1> HIDE DEF after
<1>8. ASSUME NEW q \in DOMAIN m PROVE m[q] \in Headers
  <2>1. q \in DOMAIN mem
    BY <1>3
  <2>2. /\ mem[q].used \in BOOLEAN
        /\ mem[q].next \in 0 .. End /\ mem[q].prev \in 0 .. End
        /\ after \in 0 .. End /\ p \in 0 .. End
    BY <2>1, <1>1, <1>2, HeaderType, EndType
  <2> QED
    BY <2>2, <1>4 DEF Headers, Block
<1>9. Typed(m)
  <2>1. DOMAIN m \subseteq 0 .. End
    BY <1>3 DEF Typed
  <2> QED
    BY <2>1, <1>5, <1>8 DEF Typed
<1>10. {0, End} \subseteq DOMAIN m
  BY <1>1, <1>3 DEF Linked
<1>11. m[0].prev = 0
  <2>1. 0 \in DOMAIN m /\ mem[0].prev = 0 /\ 0 # after
    BY <1>1, <1>2, <1>10 DEF Linked
  <2> QED
    BY <2>1, <1>7
<1>12. m[End].used /\ m[End].next = End
  <2>1. End \in DOMAIN m /\ mem[End].used /\ mem[End].next = End
    BY <1>10 DEF Linked
  <2> QED
    BY <2>1, <1>1, <1>7
<1>13. ASSUME NEW q \in Blocks(m)
       PROVE  LET x == m[q].next IN
              /\ x \in DOMAIN m /\ x >= q + Header
              /\ \A r \in DOMAIN m : r <= q \/ r >= x
              /\ x # End => m[x].prev = q
  <2>0. q \in Blocks(mem) /\ q \in DOMAIN mem /\ q \in DOMAIN m /\ q # n
    BY <1>3 DEF Blocks
  <2>1. CASE q = p
    <3>1. m[q].next = after
      BY <2>0, <2>1, <1>7
    <3>2. after \in DOMAIN m
      BY <1>2, <1>3
    <3>3. m[after].prev = p
      BY <3>2, <1>7
    <3>4. after >= p + Header
      BY <1>1, <1>2, EndType
    <3>5. ASSUME NEW r \in DOMAIN m PROVE r <= p \/ r >= after
      <4>1. r \in DOMAIN mem /\ r # n
        BY <1>3
      <4>2. r \in Nat
        BY <4>1, HeaderType
      <4> QED
        BY <4>1, <4>2, <1>1, <1>2
    <3> QED
      BY <2>1, <3>1, <3>2, <3>3, <3>4, <3>5
  <2>2. CASE q # p
    <3>1. /\ mem[q].next \in DOMAIN mem
          /\ mem[q].next >= q + Header
          /\ \A r \in DOMAIN mem : r <= q \/ r >= mem[q].next
          /\ mem[q].next # End => mem[mem[q].next].prev = q
      BY <2>0, BlockFacts
    <3>2. mem[q].next # n
      BY <2>0, <2>2, BlocksApart
    <3>3. mem[q].next # after
      BY <2>0, BlocksApart DEF after
    <3>4. m[q].next = mem[q].next
      BY <2>0, <2>2, <1>7
    <3>5. mem[q].next \in DOMAIN m
      BY <3>1, <3>2, <1>3
    <3>6. mem[q].next # End => m[mem[q].next].prev = q
      BY <3>1, <3>3, <3>5, <1>7
    <3> QED
      BY <3>1, <3>4, <3>5, <3>6, <1>3
  <2> QED
    BY <2>1, <2>2
<1>14. Linked(m)
  BY <1>10, <1>11, <1>12, <1>13 DEF Linked
<1>15. m[p].next = after
  BY <1>1, <1>3, <1>7
<1> QED
  BY <1>1, <1>3, <1>6, <1>7, <1>9, <1>14, <1>15 DEF m, after

-----------------------------------------------------------------------------
(* What some blocks take. *)

(* What blocks take is a finite set, with a number of bytes.                *)
LEMMA CoveredFinite ==
  ASSUME NEW mem, Typed(mem), Linked(mem), NEW S \in SUBSET Blocks(mem)
  PROVE  /\ IsFiniteSet(Covered(mem, S))
         /\ Cardinality(Covered(mem, S)) \in 0 .. End
<1>1. ASSUME NEW x \in Covered(mem, S) PROVE x \in 0 .. End - 1
  <2>1. PICK p \in S : x \in p .. mem[p].next - 1
    BY DEF Covered
  <2>2. p \in DOMAIN mem /\ mem[p].next \in DOMAIN mem
    BY BlockFacts
  <2>3. p \in Nat /\ mem[p].next \in Nat /\ mem[p].next <= End
    BY <2>2, HeaderType
  <2> QED
    BY <2>1, <2>3, EndType
<1> DEFINE I == 0 .. End - 1
<1>2. IsFiniteSet(I) /\ Cardinality(I) = End
  BY FS_Interval, EndType
<1>3. Covered(mem, S) \in SUBSET I
  BY <1>1
<1> HIDE DEF I
<1>4. IsFiniteSet(Covered(mem, S)) /\ Cardinality(Covered(mem, S)) <= End
  BY <1>2, <1>3, FS_Subset
<1>5. Cardinality(Covered(mem, S)) \in Nat
  BY <1>4, FS_CardinalityType
<1> QED
  BY <1>4, <1>5, EndType

(* One more block in use adds its bytes to those in use.                    *)
LEMMA CoveredStep ==
  ASSUME NEW mem, Typed(mem), Linked(mem), NEW S \in SUBSET Blocks(mem), NEW p \in S
  PROVE  Cardinality(Covered(mem, S)) =
           Cardinality(Covered(mem, S \ {p})) + (mem[p].next - p)
<1> DEFINE A == Covered(mem, S \ {p})
           B == p .. mem[p].next - 1
<1>1. /\ p \in Blocks(mem)
      /\ p \in Nat /\ mem[p].next \in Nat /\ p < mem[p].next
  <2>1. p \in DOMAIN mem /\ mem[p].next \in DOMAIN mem /\ p < mem[p].next
    BY BlockFacts
  <2> QED
    BY <2>1, HeaderType
<1>2. Covered(mem, S) = A \union B
  BY DEF Covered
<1>3. A \intersect B = {}
  <2> SUFFICES ASSUME NEW x \in A, x \in B PROVE FALSE
    OBVIOUS
  <2>1. PICK q \in S \ {p} : x \in q .. mem[q].next - 1
    BY DEF Covered
  <2>2. q \in Blocks(mem) /\ q # p
    BY <2>1
  <2>3. mem[p].next <= q \/ mem[q].next <= p
    BY <2>2, <1>1, BlocksApart
  <2>4. q \in Nat /\ mem[q].next \in Nat
    BY <2>2, HeaderType DEF Blocks
  <2> QED
    BY <2>1, <2>3, <2>4, <1>1
<1>4. IsFiniteSet(A)
  <2>1. S \ {p} \in SUBSET Blocks(mem)
    OBVIOUS
  <2> QED
    BY <2>1, CoveredFinite
<1>5. IsFiniteSet(B) /\ Cardinality(B) = mem[p].next - p
  <2> DEFINE k == mem[p].next - 1
  <2>1. k \in Int /\ p \in Int /\ ~(p > k) /\ k - p + 1 = mem[p].next - p
    BY <1>1
  <2> HIDE DEF k
  <2>2. IsFiniteSet(p .. k) /\ Cardinality(p .. k) = mem[p].next - p
    BY <2>1, FS_Interval
  <2> QED
    BY <2>2 DEF k
<1> HIDE DEF A, B
<1>6. Cardinality(A \union B) = Cardinality(A) + Cardinality(B)
  BY <1>3, <1>4, <1>5, DisjointCardinality
<1> QED
  BY <1>2, <1>5, <1>6 DEF A

(* Blocks with the same ends take the same bytes.                           *)
LEMMA CoveredSame ==
  ASSUME NEW mem, NEW m, NEW S, \A q \in S : m[q].next = mem[q].next
  PROVE  Covered(m, S) = Covered(mem, S)
BY DEF Covered

-----------------------------------------------------------------------------
(* plug_holes *)

\* The heap is right but for the free block at p, which may touch others.
Loose(h, p) ==
  /\ Typed(h.mem) /\ Linked(h.mem)
  /\ p \in FreeBlocks(h.mem)
  /\ \A q \in FreeBlocks(h.mem) :
       h.mem[q].next \in FreeBlocks(h.mem) => q = p \/ h.mem[q].next = p
  /\ h.lfree = Min(FreeBlocks(h.mem) \union {End})
  /\ h.used = Cardinality(Covered(h.mem, UsedBlocks(h.mem)))

\* The heap is right.
HeapOK(h) == Typed(h.mem) /\ Sound(h)

(* lfree is a free block, or heap_end, and no free block is before it.      *)
LEMMA FirstFree ==
  ASSUME NEW mem, Typed(mem), Linked(mem)
  PROVE  LET S == FreeBlocks(mem) \union {End}
         IN  /\ S \in SUBSET Nat /\ Min(S) \in S
             /\ \A x \in S : Min(S) <= x
             /\ Min(S) \in DOMAIN mem
<1> DEFINE S == FreeBlocks(mem) \union {End}
<1>1. S \subseteq DOMAIN mem
  BY DEF FreeBlocks, Blocks, Linked
<1>2. S \in SUBSET Nat /\ S # {}
  BY <1>1, HeaderType
<1> HIDE DEF S
<1>3. Min(S) \in S /\ \A x \in S : Min(S) <= x
  BY <1>2, MinExists
<1> QED
  BY <1>1, <1>2, <1>3 DEF S

\* Two free neighbours of h are one block of g.
OneBlock(h, g, p, n) ==
  /\ Typed(g.mem) /\ Linked(g.mem)
  /\ p < n
  /\ FreeBlocks(g.mem) = FreeBlocks(h.mem) \ {n}
  /\ UsedBlocks(g.mem) = UsedBlocks(h.mem)
  /\ g.mem[p].next = h.mem[n].next
  /\ \A q \in Blocks(g.mem) \ {p} : g.mem[q].next = h.mem[q].next
  /\ g.lfree = Min(FreeBlocks(g.mem) \union {End})
  /\ g.used = h.used

(* Two free neighbours become one; lfree was not the second.                *)
LEMMA JoinedFree ==
  ASSUME NEW h, Typed(h.mem), Linked(h.mem),
         NEW p \in FreeBlocks(h.mem), NEW n \in FreeBlocks(h.mem), h.mem[p].next = n,
         h.lfree = Min(FreeBlocks(h.mem) \union {End})
  PROVE  OneBlock(h, Joined(h, p, n), p, n)
<1> DEFINE g == Joined(h, p, n)
<1>1. p \in Blocks(h.mem) /\ n \in Blocks(h.mem) /\ ~h.mem[p].used /\ ~h.mem[n].used
  BY DEF FreeBlocks
<1>2. /\ Typed(g.mem) /\ Linked(g.mem)
      /\ DOMAIN g.mem = DOMAIN h.mem \ {n}
      /\ p # n /\ p < n
      /\ g.mem[p].next = h.mem[n].next
      /\ \A q \in DOMAIN g.mem : g.mem[q].used = h.mem[q].used
      /\ \A q \in DOMAIN g.mem \ {p} : g.mem[q].next = h.mem[q].next
      /\ g.lfree = IF h.lfree = n THEN p ELSE h.lfree
      /\ g.used = h.used
  BY <1>1, JoinedLinked
<1> HIDE DEF g
<1>3. FreeBlocks(g.mem) = FreeBlocks(h.mem) \ {n}
  BY <1>1, <1>2 DEF FreeBlocks, Blocks
<1>4. UsedBlocks(g.mem) = UsedBlocks(h.mem)
  BY <1>1, <1>2 DEF UsedBlocks, Blocks
<1> DEFINE S == FreeBlocks(h.mem) \union {End}
           T == FreeBlocks(g.mem) \union {End}
<1>5. /\ S \in SUBSET Nat /\ h.lfree \in S
      /\ \A x \in S : h.lfree <= x
  BY FirstFree
<1>6. h.lfree # n
  <2>1. p \in S /\ n \in S
    OBVIOUS
  <2> HIDE DEF S
  <2>2. h.lfree <= p /\ p \in Nat /\ n \in Nat
    BY <2>1, <1>5
  <2> QED
    BY <2>2, <1>2
<1>7. h.lfree \in T /\ T \in SUBSET Nat /\ \A x \in T : h.lfree <= x
  BY <1>3, <1>5, <1>6
<1> HIDE DEF T
<1>8. Min(T) = h.lfree
  BY <1>7, MinIs
<1>9. g.lfree = Min(T)
  BY <1>2, <1>6, <1>8
<1>10. \A q \in Blocks(g.mem) \ {p} : g.mem[q].next = h.mem[q].next
  BY <1>2 DEF Blocks
<1> QED
  BY <1>2, <1>3, <1>4, <1>9, <1>10 DEF g, T, OneBlock

(* The second half: a free block that no free one follows.                  *)
LEMMA PlugBehind ==
  ASSUME NEW h1, NEW p,
         Typed(h1.mem) /\ Linked(h1.mem),
         p \in FreeBlocks(h1.mem),
         h1.mem[p].next \notin FreeBlocks(h1.mem),
         \A q \in FreeBlocks(h1.mem) : h1.mem[q].next \in FreeBlocks(h1.mem) => h1.mem[q].next = p,
         h1.lfree = Min(FreeBlocks(h1.mem) \union {End})
  PROVE  LET b == h1.mem[p].prev
             g == IF b # p /\ ~h1.mem[b].used THEN Joined(h1, b, p) ELSE h1
         IN  /\ Typed(g.mem) /\ Linked(g.mem) /\ Apart(g.mem)
             /\ g.lfree = Min(FreeBlocks(g.mem) \union {End})
             /\ g.used = h1.used
             /\ UsedBlocks(g.mem) = UsedBlocks(h1.mem)
             /\ \A q \in UsedBlocks(h1.mem) : g.mem[q].next = h1.mem[q].next
<1> DEFINE b == h1.mem[p].prev
           g == IF b # p /\ ~h1.mem[b].used THEN Joined(h1, b, p) ELSE h1
<1>a. /\ Typed(h1.mem) /\ Linked(h1.mem)
      /\ p \in FreeBlocks(h1.mem)
      /\ h1.mem[p].next \notin FreeBlocks(h1.mem)
      /\ \A q \in FreeBlocks(h1.mem) : h1.mem[q].next \in FreeBlocks(h1.mem) => h1.mem[q].next = p
      /\ h1.lfree = Min(FreeBlocks(h1.mem) \union {End})
  OBVIOUS
<1>b. p \in Blocks(h1.mem) /\ p \in DOMAIN h1.mem /\ p # End /\ p \in Nat
  <2>1. p \in Blocks(h1.mem) /\ p \in DOMAIN h1.mem /\ p # End
    BY DEF FreeBlocks, Blocks
  <2> QED
    BY <2>1, HeaderType
<1> SUFFICES /\ Typed(g.mem) /\ Linked(g.mem) /\ Apart(g.mem)
             /\ g.lfree = Min(FreeBlocks(g.mem) \union {End})
             /\ g.used = h1.used
             /\ UsedBlocks(g.mem) = UsedBlocks(h1.mem)
             /\ \A q \in UsedBlocks(h1.mem) : g.mem[q].next = h1.mem[q].next
  OBVIOUS
<1>1. CASE p = 0
  <2>1. b = p
    BY <1>1, <1>a DEF Linked
  <2>2. g = h1
    BY <2>1
  <2>3. ASSUME NEW q \in FreeBlocks(h1.mem) PROVE h1.mem[q].next # p
    <3>1. q \in Blocks(h1.mem)
      BY DEF FreeBlocks
    <3>2. q \in DOMAIN h1.mem /\ q < h1.mem[q].next /\ h1.mem[q].next \in DOMAIN h1.mem
      BY <3>1, <1>a, BlockFacts
    <3>3. q \in Nat /\ h1.mem[q].next \in Nat
      BY <3>2, <1>a, HeaderType
    <3> QED
      BY <3>2, <3>3, <1>1
  <2>4. Apart(h1.mem)
    BY <2>3, <1>a DEF Apart
  <2> HIDE DEF g
  <2> QED
    BY <2>2, <2>4, <1>a
<1>2. CASE p # 0
  <2>1. PICK d \in Blocks(h1.mem) : h1.mem[d].next = p /\ d < p /\ h1.mem[p].prev = d
    BY <1>2, <1>a, <1>b, Predecessor
  <2>2. b = d /\ d # p
    BY <2>1, <1>b
  <2>3. \A q \in Blocks(h1.mem) : h1.mem[q].next = p => q = d
    BY <2>1, <1>a, BlocksApart
  <2>4. CASE h1.mem[d].used
    <3>1. g = h1
      BY <2>2, <2>4
    <3>2. d \notin FreeBlocks(h1.mem)
      BY <2>4 DEF FreeBlocks
    <3>3. Apart(h1.mem)
      <4>1. ASSUME NEW q \in FreeBlocks(h1.mem) PROVE h1.mem[q].next \notin FreeBlocks(h1.mem)
        <5>1. q \in Blocks(h1.mem) /\ q # d
          BY <3>2 DEF FreeBlocks
        <5> QED
          BY <5>1, <2>3, <1>a
      <4> QED
        BY <4>1 DEF Apart
    <3> HIDE DEF g
    <3> QED
      BY <3>1, <3>3, <1>a
  <2>5. CASE ~h1.mem[d].used
    <3> DEFINE k == Joined(h1, d, p)
    <3>1. g = k
      BY <2>2, <2>5
    <3>2. d \in FreeBlocks(h1.mem)
      BY <2>1, <2>5 DEF FreeBlocks
    <3>3. /\ Typed(k.mem) /\ Linked(k.mem)
          /\ FreeBlocks(k.mem) = FreeBlocks(h1.mem) \ {p}
          /\ UsedBlocks(k.mem) = UsedBlocks(h1.mem)
          /\ k.mem[d].next = h1.mem[p].next
          /\ \A q \in Blocks(k.mem) \ {d} : k.mem[q].next = h1.mem[q].next
          /\ k.lfree = Min(FreeBlocks(k.mem) \union {End})
          /\ k.used = h1.used
      <4>1. /\ Typed(h1.mem) /\ Linked(h1.mem) /\ p \in FreeBlocks(h1.mem)
            /\ h1.lfree = Min(FreeBlocks(h1.mem) \union {End})
            /\ h1.mem[d].next = p
        BY <1>a, <2>1
      <4>2. OneBlock(h1, k, d, p)
        BY <4>1, <3>2, JoinedFree
      <4> HIDE DEF k
      <4> QED
        BY <4>2 DEF OneBlock
    <3> HIDE DEF k, g
    <3>4. Apart(k.mem)
      <4>1. ASSUME NEW q \in FreeBlocks(k.mem) PROVE k.mem[q].next \notin FreeBlocks(k.mem)
        <5>1. CASE q = d
          BY <5>1, <3>3, <1>a
        <5>2. CASE q # d
          <6>1. q \in Blocks(k.mem) /\ q \in FreeBlocks(h1.mem)
            BY <3>3 DEF FreeBlocks
          <6>2. k.mem[q].next = h1.mem[q].next
            BY <5>2, <6>1, <3>3
          <6> QED
            BY <6>1, <6>2, <3>3, <1>a
        <5> QED
          BY <5>1, <5>2
      <4> QED
        BY <4>1 DEF Apart
    <3>5. ASSUME NEW q \in UsedBlocks(h1.mem) PROVE k.mem[q].next = h1.mem[q].next
      <4>1. q \in Blocks(k.mem) /\ q # d
        BY <3>3, <2>5 DEF UsedBlocks
      <4> QED
        BY <4>1, <3>3
    <3> QED
      BY <3>1, <3>3, <3>4, <3>5
  <2> QED
    BY <2>4, <2>5
<1> QED
  BY <1>1, <1>2

(* plug_holes makes a heap right in which one free block, p, may touch free *)
(* ones on either side: both halves of it together.                         *)
LEMMA PlugHolesSound ==
  ASSUME NEW h, NEW p, Loose(h, p)
  PROVE  LET g == PlugHoles(h, p)
         IN  /\ HeapOK(g)
             /\ UsedBlocks(g.mem) = UsedBlocks(h.mem)
             /\ \A q \in UsedBlocks(h.mem) : g.mem[q].next = h.mem[q].next
<1> DEFINE n == h.mem[p].next
           h1 == IF n # End /\ ~h.mem[n].used THEN Joined(h, p, n) ELSE h
           b == h1.mem[p].prev
           g == IF b # p /\ ~h1.mem[b].used THEN Joined(h1, b, p) ELSE h1
<1>0. PlugHoles(h, p) = g
  BY DEF PlugHoles
<1>1. /\ Typed(h.mem) /\ Linked(h.mem)
      /\ p \in FreeBlocks(h.mem)
      /\ \A q \in FreeBlocks(h.mem) :
           h.mem[q].next \in FreeBlocks(h.mem) => q = p \/ h.mem[q].next = p
      /\ h.lfree = Min(FreeBlocks(h.mem) \union {End})
      /\ h.used = Cardinality(Covered(h.mem, UsedBlocks(h.mem)))
  BY DEF Loose
<1>2. p \in Blocks(h.mem) /\ p \in DOMAIN h.mem /\ n \in DOMAIN h.mem /\ p < n /\ p \in Nat
  <2>1. p \in Blocks(h.mem)
    BY <1>1 DEF FreeBlocks
  <2> QED
    BY <2>1, <1>1, BlockFacts, HeaderType
\* After the hole in front is plugged.
<1>3. /\ Typed(h1.mem) /\ Linked(h1.mem)
      /\ p \in FreeBlocks(h1.mem)
      /\ h1.mem[p].next \notin FreeBlocks(h1.mem)
      /\ \A q \in FreeBlocks(h1.mem) : h1.mem[q].next \in FreeBlocks(h1.mem) => h1.mem[q].next = p
      /\ h1.lfree = Min(FreeBlocks(h1.mem) \union {End})
      /\ h1.used = h.used
      /\ UsedBlocks(h1.mem) = UsedBlocks(h.mem)
      /\ \A q \in UsedBlocks(h.mem) : h1.mem[q].next = h.mem[q].next
  <2>1. CASE n # End /\ ~h.mem[n].used
    <3>1. h1 = Joined(h, p, n)
      BY <2>1
    <3>2. n \in FreeBlocks(h.mem)
      BY <2>1, <1>2 DEF FreeBlocks, Blocks
    <3> DEFINE k == Joined(h, p, n)
    <3>3. /\ Typed(k.mem) /\ Linked(k.mem)
          /\ p < n
          /\ FreeBlocks(k.mem) = FreeBlocks(h.mem) \ {n}
          /\ UsedBlocks(k.mem) = UsedBlocks(h.mem)
          /\ k.mem[p].next = h.mem[n].next
          /\ \A q \in Blocks(k.mem) \ {p} : k.mem[q].next = h.mem[q].next
          /\ k.lfree = Min(FreeBlocks(k.mem) \union {End})
          /\ k.used = h.used
      <4>1. OneBlock(h, k, p, n)
        BY <1>1, <3>2, JoinedFree
      <4> QED
        BY <4>1 DEF OneBlock
    <3> HIDE DEF k
    <3>4. h.mem[n].next \notin FreeBlocks(h.mem)
      <4>1. n # p /\ n \in Nat /\ n < h.mem[n].next
        <5>1. n \in Blocks(h.mem)
          BY <3>2 DEF FreeBlocks
        <5> QED
          BY <5>1, <1>1, <1>2, <3>3, BlockFacts, HeaderType
      <4> QED
        BY <4>1, <3>2, <3>3, <1>1, <1>2
    <3>5. p \in FreeBlocks(k.mem) /\ k.mem[p].next \notin FreeBlocks(k.mem)
      BY <3>3, <3>4, <1>1, <1>2
    <3>6. ASSUME NEW q \in FreeBlocks(k.mem), k.mem[q].next \in FreeBlocks(k.mem)
          PROVE  k.mem[q].next = p
      <4>1. q # p
        BY <3>5, <3>6
      <4>2. q \in Blocks(k.mem) /\ q \in FreeBlocks(h.mem)
        BY <3>3 DEF FreeBlocks
      <4>3. k.mem[q].next = h.mem[q].next
        BY <4>1, <4>2, <3>3
      <4> QED
        BY <3>3, <3>6, <4>1, <4>2, <4>3, <1>1
    <3>7. ASSUME NEW q \in UsedBlocks(h.mem) PROVE k.mem[q].next = h.mem[q].next
      <4>1. q \in Blocks(k.mem)
        BY <3>3 DEF UsedBlocks
      <4>2. q # p
        BY <1>1 DEF FreeBlocks, UsedBlocks
      <4> QED
        BY <4>1, <4>2, <3>3
    <3>8. h1 = k
      BY <3>1 DEF k
    <3> HIDE DEF h1
    <3> QED
      BY <3>3, <3>5, <3>6, <3>7, <3>8
  <2>2. CASE ~(n # End /\ ~h.mem[n].used)
    <3>1. h1 = h
      BY <2>2
    <3>2. n \notin FreeBlocks(h.mem)
      BY <2>2 DEF FreeBlocks, Blocks
    <3>3. ASSUME NEW q \in FreeBlocks(h.mem), h.mem[q].next \in FreeBlocks(h.mem)
          PROVE  h.mem[q].next = p
      BY <3>2, <3>3, <1>1
    <3> HIDE DEF h1
    <3> QED
      BY <1>1, <3>1, <3>2, <3>3
  <2> QED
    BY <2>1, <2>2
<1> HIDE DEF h1
<1>5. /\ Typed(g.mem) /\ Linked(g.mem) /\ Apart(g.mem)
      /\ g.lfree = Min(FreeBlocks(g.mem) \union {End})
      /\ g.used = h1.used
      /\ UsedBlocks(g.mem) = UsedBlocks(h1.mem)
      /\ \A q \in UsedBlocks(h1.mem) : g.mem[q].next = h1.mem[q].next
  <2> HIDE DEF b, g
  <2>1. LET c == h1.mem[p].prev
            k == IF c # p /\ ~h1.mem[c].used THEN Joined(h1, c, p) ELSE h1
        IN  /\ Typed(k.mem) /\ Linked(k.mem) /\ Apart(k.mem)
            /\ k.lfree = Min(FreeBlocks(k.mem) \union {End})
            /\ k.used = h1.used
            /\ UsedBlocks(k.mem) = UsedBlocks(h1.mem)
            /\ \A q \in UsedBlocks(h1.mem) : k.mem[q].next = h1.mem[q].next
    BY <1>3, PlugBehind
  <2> QED
    BY <2>1 DEF b, g
<1> HIDE DEF g
<1>6. /\ UsedBlocks(g.mem) = UsedBlocks(h.mem)
      /\ \A q \in UsedBlocks(h.mem) : g.mem[q].next = h.mem[q].next
  BY <1>3, <1>5
<1>7. Covered(g.mem, UsedBlocks(h.mem)) = Covered(h.mem, UsedBlocks(h.mem))
  BY <1>6, CoveredSame
<1>8. g.used = Cardinality(Covered(g.mem, UsedBlocks(g.mem)))
  BY <1>1, <1>3, <1>5, <1>6, <1>7
<1>9. HeapOK(g)
  BY <1>5, <1>8 DEF HeapOK, Sound
<1> QED
  BY <1>0, <1>6, <1>9

-----------------------------------------------------------------------------
(* The calls: the heap stays right, one block more or less is in use, and   *)
(* the other blocks in use stay where and as large as they are.             *)

SoundFacts(h) ==
  /\ Typed(h.mem) /\ Linked(h.mem) /\ Apart(h.mem)
  /\ h.lfree = Min(FreeBlocks(h.mem) \union {End})
  /\ h.used = Cardinality(Covered(h.mem, UsedBlocks(h.mem)))

(* What a heap that is right is made of.                                    *)
LEMMA HeapFacts ==
  ASSUME NEW h, HeapOK(h)
  PROVE  SoundFacts(h)
BY DEF HeapOK, Sound, SoundFacts

(* rt_free of a block in use                                                *)
LEMMA FreeSound ==
  ASSUME NEW h, HeapOK(h), NEW p \in UsedBlocks(h.mem)
  PROVE  LET g == Free(h, p)
         IN  /\ HeapOK(g)
             /\ UsedBlocks(g.mem) = UsedBlocks(h.mem) \ {p}
             /\ \A q \in UsedBlocks(h.mem) \ {p} : g.mem[q].next = h.mem[q].next
<1> DEFINE next == h.mem[p].next
           m == WithBlock(h.mem, p, Block(FALSE, next, h.mem[p].prev))
           h0 == [mem   |-> m,
                  lfree |-> IF p < h.lfree THEN p ELSE h.lfree,
                  used  |-> h.used - (next - p)]
           F == FreeBlocks(h.mem) \union {End}
           U == UsedBlocks(h.mem)
<1>1. Free(h, p) = PlugHoles(h0, p)
  BY DEF Free
<1>2. /\ h0.mem = m
      /\ h0.lfree = IF p < h.lfree THEN p ELSE h.lfree
      /\ h0.used = h.used - (next - p)
  OBVIOUS
<1>3. /\ Typed(h.mem) /\ Linked(h.mem) /\ Apart(h.mem)
      /\ h.lfree = Min(F)
      /\ h.used = Cardinality(Covered(h.mem, U))
  BY HeapFacts DEF SoundFacts
<1>4. p \in Blocks(h.mem) /\ p \in DOMAIN h.mem /\ p # End /\ h.mem[p].used /\ p \in Nat
  <2>1. p \in Blocks(h.mem) /\ p \in DOMAIN h.mem /\ p # End /\ h.mem[p].used
    BY DEF UsedBlocks, Blocks
  <2> QED
    BY <2>1, <1>3, HeaderType
<1>5. /\ Typed(m) /\ Linked(m)
      /\ DOMAIN m = DOMAIN h.mem
      /\ m[p].used = FALSE
      /\ \A q \in DOMAIN h.mem : m[q].next = h.mem[q].next
      /\ \A q \in DOMAIN h.mem \ {p} : m[q].used = h.mem[q].used
  BY <1>3, <1>4, MarkLinked
<1> HIDE DEF m, h0
<1>6. FreeBlocks(m) = FreeBlocks(h.mem) \union {p}
  BY <1>4, <1>5 DEF FreeBlocks, Blocks
<1>7. UsedBlocks(m) = U \ {p}
  BY <1>4, <1>5 DEF UsedBlocks, Blocks
<1>8. ASSUME NEW q \in FreeBlocks(m), m[q].next \in FreeBlocks(m)
      PROVE  q = p \/ m[q].next = p
  <2>1. CASE q = p
    BY <2>1
  <2>2. CASE q # p
    <3>1. q \in FreeBlocks(h.mem) /\ q \in DOMAIN h.mem
      BY <2>2, <1>6 DEF FreeBlocks, Blocks
    <3>2. h.mem[q].next \notin FreeBlocks(h.mem)
      BY <3>1, <1>3 DEF Apart
    <3> QED
      BY <3>1, <3>2, <1>5, <1>6, <1>8
  <2> QED
    BY <2>1, <2>2
<1>9. h0.lfree = Min(FreeBlocks(m) \union {End})
  <2> DEFINE S == FreeBlocks(m) \union {End}
  <2>1. F \in SUBSET Nat /\ h.lfree \in F /\ \A x \in F : h.lfree <= x
    BY <1>3, FirstFree
  <2>2. S = F \union {p} /\ F # {}
    BY <1>6
  <2> HIDE DEF S, F
  <2>3. Min(S) = IF p < Min(F) THEN p ELSE Min(F)
    BY <2>1, <2>2, <1>4, MinWith
  <2> QED
    BY <2>3, <1>2, <1>3 DEF S
<1>10. h0.used = Cardinality(Covered(m, UsedBlocks(m)))
  <2>1. U \in SUBSET Blocks(h.mem)
    BY DEF UsedBlocks
  <2>2. Cardinality(Covered(h.mem, U)) = Cardinality(Covered(h.mem, U \ {p})) + (next - p)
    BY <2>1, <1>3, CoveredStep
  <2>3. Cardinality(Covered(h.mem, U \ {p})) \in Nat
    <3>1. U \ {p} \in SUBSET Blocks(h.mem)
      BY <2>1
    <3> HIDE DEF U
    <3> QED
      BY <3>1, <1>3, EndType, CoveredFinite
  <2>4. next \in Nat
    BY <1>3, <1>4, HeaderType
  <2>5. Covered(m, U \ {p}) = Covered(h.mem, U \ {p})
    <3>1. \A q \in U \ {p} : m[q].next = h.mem[q].next
      BY <1>5 DEF UsedBlocks, Blocks
    <3> HIDE DEF U
    <3> QED
      BY <3>1, CoveredSame
  <2> HIDE DEF U, next
  <2>6. h.used - (next - p) = Cardinality(Covered(h.mem, U \ {p}))
    BY <1>3, <1>4, <2>2, <2>3, <2>4
  <2> QED
    BY <1>2, <1>7, <2>5, <2>6
<1>11. Loose(h0, p)
  BY <1>2, <1>5, <1>6, <1>8, <1>9, <1>10 DEF Loose
<1> DEFINE g == PlugHoles(h0, p)
<1>12. /\ HeapOK(g)
       /\ UsedBlocks(g.mem) = UsedBlocks(h0.mem)
       /\ \A q \in UsedBlocks(h0.mem) : g.mem[q].next = h0.mem[q].next
  BY <1>11, PlugHolesSound
<1> HIDE DEF g
<1>13. ASSUME NEW q \in U \ {p} PROVE g.mem[q].next = h.mem[q].next
  <2>1. q \in UsedBlocks(h0.mem) /\ q \in DOMAIN h.mem
    BY <1>2, <1>7 DEF UsedBlocks, Blocks
  <2> QED
    BY <2>1, <1>2, <1>5, <1>12
<1>14. Free(h, p) = g
  BY <1>1 DEF g
<1>15. UsedBlocks(g.mem) = U \ {p}
  BY <1>2, <1>7, <1>12
<1> QED
  BY <1>12, <1>13, <1>14, <1>15

(* rt_realloc that cuts a block in use                                      *)
LEMMA ShrunkSound ==
  ASSUME NEW h, HeapOK(h), NEW p \in UsedBlocks(h.mem), NEW size \in Nat,
         Shrinks(h, p, size)
  PROVE  LET g == Shrunk(h, p, size)
         IN  /\ HeapOK(g)
             /\ UsedBlocks(g.mem) = UsedBlocks(h.mem)
             /\ \A q \in UsedBlocks(h.mem) \ {p} : g.mem[q].next = h.mem[q].next
             /\ g.mem[p].next = p + Header + size
<1> DEFINE next == h.mem[p].next
           rest == p + Header + size
           m == Split(h.mem, p, rest)
           h0 == [mem   |-> m,
                  lfree |-> IF rest < h.lfree THEN rest ELSE h.lfree,
                  used  |-> h.used - (Room(h, p) - size)]
           F == FreeBlocks(h.mem) \union {End}
           U == UsedBlocks(h.mem)
<1>1. Shrunk(h, p, size) = PlugHoles(h0, rest)
  BY DEF Shrunk
<1>2. /\ h0.mem = m
      /\ h0.lfree = IF rest < h.lfree THEN rest ELSE h.lfree
      /\ h0.used = h.used - (Room(h, p) - size)
  OBVIOUS
<1>3. /\ Typed(h.mem) /\ Linked(h.mem) /\ Apart(h.mem)
      /\ h.lfree = Min(F)
      /\ h.used = Cardinality(Covered(h.mem, U))
  BY HeapFacts DEF SoundFacts
<1>4. p \in Blocks(h.mem) /\ p \in DOMAIN h.mem /\ h.mem[p].used /\ p \in Nat /\ next \in Nat
  <2>1. p \in Blocks(h.mem) /\ p \in DOMAIN h.mem /\ h.mem[p].used
    BY DEF UsedBlocks, Blocks
  <2> QED
    BY <2>1, <1>3, HeaderType
<1>5. rest \in Nat /\ p + Header <= rest /\ rest + Header <= next
  BY <1>4, EndType DEF Shrinks, Room
<1>6. /\ Typed(m) /\ Linked(m)
      /\ rest \notin DOMAIN h.mem /\ rest < End
      /\ DOMAIN m = DOMAIN h.mem \union {rest}
      /\ m[p].next = rest
      /\ m[rest].used = FALSE /\ m[rest].next = next
      /\ \A q \in DOMAIN h.mem : m[q].used = h.mem[q].used
      /\ \A q \in DOMAIN h.mem \ {p} : m[q].next = h.mem[q].next
  <2> HIDE DEF rest
  <2>1. CutOff(h.mem, m, p, rest)
    BY <1>3, <1>4, <1>5, SplitLinked
  <2> HIDE DEF m
  <2> QED
    BY <2>1 DEF CutOff
<1> HIDE DEF m, h0
<1>7. rest # End
  BY <1>5, <1>6, EndType
<1>8. FreeBlocks(m) = FreeBlocks(h.mem) \union {rest}
  <2> HIDE DEF rest
  <2> QED
    BY <1>6, <1>7 DEF FreeBlocks, Blocks
<1>9. UsedBlocks(m) = U
  <2> HIDE DEF rest
  <2> QED
    BY <1>6, <1>7 DEF UsedBlocks, Blocks
<1> HIDE DEF rest
<1>10. ASSUME NEW q \in FreeBlocks(m), m[q].next \in FreeBlocks(m)
       PROVE  q = rest \/ m[q].next = rest
  <2>1. CASE q = rest
    BY <2>1
  <2>2. CASE q # rest
    <3>1. q \in FreeBlocks(h.mem) /\ q \in DOMAIN h.mem /\ q # p
      BY <2>2, <1>4, <1>8 DEF FreeBlocks, Blocks
    <3>2. h.mem[q].next \notin FreeBlocks(h.mem)
      BY <3>1, <1>3 DEF Apart
    <3> QED
      BY <3>1, <3>2, <1>6, <1>8, <1>10
  <2> QED
    BY <2>1, <2>2
<1>11. h0.lfree = Min(FreeBlocks(m) \union {End})
  <2> DEFINE S == FreeBlocks(m) \union {End}
  <2>1. F \in SUBSET Nat /\ h.lfree \in F /\ \A x \in F : h.lfree <= x
    BY <1>3, FirstFree
  <2>2. S = F \union {rest} /\ F # {}
    BY <1>8
  <2> HIDE DEF S, F
  <2>3. Min(S) = IF rest < Min(F) THEN rest ELSE Min(F)
    BY <2>1, <2>2, <1>5, MinWith
  <2> QED
    BY <2>3, <1>2, <1>3 DEF S
<1>12. h0.used = Cardinality(Covered(m, UsedBlocks(m)))
  <2>1. U \in SUBSET Blocks(h.mem) /\ U \in SUBSET Blocks(m) /\ p \in U
    BY <1>9 DEF UsedBlocks
  <2> DEFINE V == U \ {p}
  <2>2. Cardinality(Covered(h.mem, U)) = Cardinality(Covered(h.mem, V)) + (next - p)
    BY <2>1, <1>3, CoveredStep
  <2>3. Cardinality(Covered(m, U)) = Cardinality(Covered(m, V)) + (rest - p)
    BY <2>1, <1>6, CoveredStep
  <2>4. V \in SUBSET Blocks(h.mem) /\ \A q \in V : m[q].next = h.mem[q].next
    BY <1>6 DEF UsedBlocks, Blocks
  <2> HIDE DEF V, U, next
  <2>5. Cardinality(Covered(h.mem, V)) \in Nat
    BY <2>4, <1>3, EndType, CoveredFinite
  <2>6. Covered(m, V) = Covered(h.mem, V)
    BY <2>4, CoveredSame
  <2>7. Room(h, p) - size = next - rest
    BY <1>4, EndType DEF Room, rest, next
  <2>8. h.used - (next - rest) = Cardinality(Covered(m, U))
    BY <2>2, <2>3, <2>5, <2>6, <1>3, <1>4, <1>5
  <2> QED
    BY <1>2, <1>9, <2>7, <2>8
<1>13. Loose(h0, rest)
  BY <1>2, <1>6, <1>8, <1>10, <1>11, <1>12 DEF Loose
<1> DEFINE g == PlugHoles(h0, rest)
<1>14. /\ HeapOK(g)
       /\ UsedBlocks(g.mem) = UsedBlocks(h0.mem)
       /\ \A q \in UsedBlocks(h0.mem) : g.mem[q].next = h0.mem[q].next
  BY <1>13, PlugHolesSound
<1> HIDE DEF g
<1>15. ASSUME NEW q \in U \ {p} PROVE g.mem[q].next = h.mem[q].next
  <2>1. q \in UsedBlocks(h0.mem) /\ q \in DOMAIN h.mem
    BY <1>2, <1>9 DEF UsedBlocks, Blocks
  <2> QED
    BY <2>1, <1>2, <1>6, <1>14
<1>16. Shrunk(h, p, size) = g
  BY <1>1 DEF g
<1>17. UsedBlocks(g.mem) = U
  BY <1>2, <1>9, <1>14
<1>18. g.mem[p].next = p + Header + size
  <2>1. p \in UsedBlocks(h0.mem)
    BY <1>2, <1>9
  <2> QED
    BY <2>1, <1>2, <1>6, <1>14 DEF rest
<1> QED
  BY <1>14, <1>15, <1>16, <1>17, <1>18

\* What rt_malloc leaves when it takes the block at p for size.
Given(h, g, p, size) ==
  /\ HeapOK(g)
  /\ p \in FreeBlocks(h.mem)
  /\ UsedBlocks(g.mem) = UsedBlocks(h.mem) \union {p}
  /\ \A q \in UsedBlocks(h.mem) : g.mem[q].next = h.mem[q].next
  /\ g.mem[p].next >= p + Header + size

(* The search for the next free block, when lfree was the first and the     *)
(* block at p has been taken.                                               *)
LEMMA LfreeMovedFirst ==
  ASSUME NEW h, Typed(h.mem), Linked(h.mem), h.lfree \in DOMAIN h.mem,
         \A q \in FreeBlocks(h.mem) \union {End} : h.lfree <= q
  PROVE  LET g == LfreeMoved(h)
         IN  /\ g.mem = h.mem /\ g.used = h.used
             /\ g.lfree = Min(FreeBlocks(h.mem) \union {End})
<1> DEFINE S == FreeBlocks(h.mem) \union {End}
           T == {p \in DOMAIN h.mem : p >= h.lfree /\ (p = End \/ ~h.mem[p].used)}
<1>1. S \in SUBSET Nat
  BY FirstFree
<1>2. CASE ~h.mem[h.lfree].used
  <2>1. LfreeMoved(h) = h
    BY <1>2 DEF LfreeMoved
  <2>2. h.lfree # End
    BY <1>2 DEF Linked
  <2>3. h.lfree \in S
    BY <1>2, <2>2 DEF FreeBlocks, Blocks
  <2>4. \A q \in S : h.lfree <= q
    OBVIOUS
  <2> HIDE DEF S
  <2>5. Min(S) = h.lfree
    BY <1>1, <2>3, <2>4, MinIs
  <2> QED
    BY <2>1, <2>5 DEF S
<1>3. CASE h.mem[h.lfree].used
  <2>1. LfreeMoved(h) = [mem |-> h.mem, lfree |-> Min(T), used |-> h.used]
    BY <1>3 DEF LfreeMoved
  <2>2. S = T
    <3>1. ASSUME NEW q \in S PROVE q \in T
      <4>1. q \in DOMAIN h.mem /\ (q = End \/ ~h.mem[q].used)
        BY DEF FreeBlocks, Blocks, Linked
      <4>2. h.lfree <= q /\ q \in Nat /\ h.lfree \in Nat
        BY <1>1, HeaderType
      <4> QED
        BY <4>1, <4>2
    <3>2. ASSUME NEW q \in T PROVE q \in S
      BY DEF FreeBlocks, Blocks
    <3> QED
      BY <3>1, <3>2
  <2> HIDE DEF S, T
  <2> QED
    BY <2>1, <2>2 DEF S
<1> QED
  BY <1>2, <1>3

(* The block at p, which is the first that fits, is taken.                  *)
LEMMA TakenSound ==
  ASSUME NEW h, HeapOK(h), NEW p \in FreeBlocks(h.mem), NEW size \in Nat,
         Room(h, p) >= size
  PROVE  Given(h, Taken(h, p, size), p, size)
<1> DEFINE next == h.mem[p].next
           rest == p + Header + size
           cut == Room(h, p) >= size + Header + MinSize
           m == IF cut THEN Split(h.mem, p, rest) ELSE h.mem
           w == WithBlock(m, p, Block(TRUE, m[p].next, m[p].prev))
           h2 == [mem |-> w, lfree |-> h.lfree, used |-> h.used + (m[p].next - p)]
           F == FreeBlocks(h.mem)
           U == UsedBlocks(h.mem)
<1>1. Taken(h, p, size) = LfreeMoved(h2)
  BY DEF Taken
<1>2. h2.mem = w /\ h2.lfree = h.lfree /\ h2.used = h.used + (m[p].next - p)
  OBVIOUS
<1>3. /\ Typed(h.mem) /\ Linked(h.mem) /\ Apart(h.mem)
      /\ h.lfree = Min(F \union {End})
      /\ h.used = Cardinality(Covered(h.mem, U))
  BY HeapFacts DEF SoundFacts
<1>4. /\ p \in Blocks(h.mem) /\ p \in DOMAIN h.mem /\ ~h.mem[p].used
      /\ p \in Nat /\ next \in Nat /\ next >= p + Header + size
  <2>1. p \in Blocks(h.mem) /\ p \in DOMAIN h.mem /\ ~h.mem[p].used
    BY DEF FreeBlocks, Blocks
  <2>2. p \in Nat /\ next \in Nat /\ next >= p + Header
    BY <2>1, <1>3, HeaderType, BlockFacts
  <2> QED
    BY <2>1, <2>2, EndType DEF Room
\* After the cut, if there is one.
<1>5. /\ Typed(m) /\ Linked(m)
      /\ p \in Blocks(m) /\ ~m[p].used
      /\ m[p].next >= p + Header + size /\ m[p].next \in Nat
      /\ UsedBlocks(m) = U
      /\ \A q \in U : m[q].next = h.mem[q].next
      /\ \A q \in FreeBlocks(m) \ {p} : m[q].next \notin FreeBlocks(m)
      /\ \A q \in FreeBlocks(m) : q \in F \/ (p < q /\ q \in Nat)
      /\ F \subseteq FreeBlocks(m)
  <2>1. CASE cut
    <3>1. m = Split(h.mem, p, rest)
      BY <2>1
    <3>2. rest \in Nat /\ p + Header <= rest /\ rest + Header <= next /\ p < rest
      BY <2>1, <1>4, EndType DEF Room
    <3> HIDE DEF m, rest
    <3>3. CutOff(h.mem, m, p, rest)
      BY <1>3, <1>4, <3>1, <3>2, SplitLinked
    <3>4. /\ Typed(m) /\ Linked(m)
          /\ rest \notin DOMAIN h.mem /\ rest < End
          /\ DOMAIN m = DOMAIN h.mem \union {rest}
          /\ m[p].next = rest
          /\ m[rest].used = FALSE /\ m[rest].next = next
          /\ \A q \in DOMAIN h.mem : m[q].used = h.mem[q].used
          /\ \A q \in DOMAIN h.mem \ {p} : m[q].next = h.mem[q].next
      BY <3>3 DEF CutOff
    <3>5. rest # End
      BY <3>2, <3>4, EndType
    <3>6. p \in Blocks(m) /\ ~m[p].used
      BY <1>4, <3>4 DEF Blocks
    <3>7. UsedBlocks(m) = U /\ FreeBlocks(m) = F \union {rest}
      BY <3>4, <3>5 DEF UsedBlocks, FreeBlocks, Blocks
    <3>8. ASSUME NEW q \in U PROVE m[q].next = h.mem[q].next
      BY <1>4, <3>4 DEF UsedBlocks, Blocks
    <3>9. ASSUME NEW q \in FreeBlocks(m), q # p PROVE m[q].next \notin FreeBlocks(m)
      <4>1. CASE q = rest
        <5>1. m[q].next = next /\ next \in DOMAIN h.mem /\ next \notin F
          BY <4>1, <1>3, <1>4, <3>4, BlockFacts DEF Apart
        <5> QED
          BY <5>1, <3>4, <3>7
      <4>2. CASE q # rest
        <5>1. q \in F /\ q \in DOMAIN h.mem /\ q \in Blocks(h.mem)
          BY <4>2, <3>7 DEF FreeBlocks, Blocks
        <5>2. m[q].next = h.mem[q].next /\ h.mem[q].next \in DOMAIN h.mem
          BY <5>1, <3>4, <3>9, <1>3, BlockFacts
        <5>3. h.mem[q].next \notin F
          BY <5>1, <1>3 DEF Apart
        <5> QED
          BY <5>2, <5>3, <3>4, <3>7
      <4> QED
        BY <4>1, <4>2
    <3>10. ASSUME NEW q \in FreeBlocks(m) PROVE q \in F \/ (p < q /\ q \in Nat)
      BY <3>2, <3>7
    <3>11. m[p].next >= p + Header + size /\ m[p].next \in Nat
      BY <3>2, <3>4, <1>4, EndType DEF rest
    <3> HIDE DEF F, U
    <3>12. F \subseteq FreeBlocks(m)
      BY <3>7
    <3> QED
      BY <3>4, <3>6, <3>7, <3>8, <3>9, <3>10, <3>11, <3>12
  <2>2. CASE ~cut
    <3>1. m = h.mem
      BY <2>2
    <3> HIDE DEF m
    <3>2. \A q \in F : h.mem[q].next \notin F
      BY <1>3 DEF Apart
    <3>3. FreeBlocks(m) = F /\ UsedBlocks(m) = U
      BY <3>1
    <3> HIDE DEF F, U, next
    <3>4. m[p].next >= p + Header + size /\ m[p].next \in Nat
      BY <1>4, <3>1 DEF next
    <3> QED
      BY <1>3, <1>4, <3>1, <3>2, <3>3, <3>4
  <2> QED
    BY <2>1, <2>2
<1> HIDE DEF m
<1>6. /\ Typed(w) /\ Linked(w)
      /\ DOMAIN w = DOMAIN m
      /\ w[p].used = TRUE
      /\ \A q \in DOMAIN m : w[q].next = m[q].next
      /\ \A q \in DOMAIN m \ {p} : w[q].used = m[q].used
  BY <1>5, MarkLinked
<1> HIDE DEF w
<1>7. p \in DOMAIN m /\ p # End
  BY <1>5 DEF Blocks
<1>8. FreeBlocks(w) = FreeBlocks(m) \ {p} /\ UsedBlocks(w) = U \union {p}
  <2>1. FreeBlocks(w) = FreeBlocks(m) \ {p}
    BY <1>5, <1>6, <1>7 DEF FreeBlocks, Blocks
  <2>2. UsedBlocks(w) = UsedBlocks(m) \union {p}
    BY <1>5, <1>6, <1>7 DEF UsedBlocks, Blocks
  <2> QED
    BY <2>1, <2>2, <1>5
<1>9. Apart(w)
  <2>1. ASSUME NEW q \in FreeBlocks(w) PROVE w[q].next \notin FreeBlocks(w)
    <3>1. q \in FreeBlocks(m) /\ q # p /\ q \in DOMAIN m
      BY <1>8 DEF FreeBlocks, Blocks
    <3> QED
      BY <3>1, <1>5, <1>6, <1>8
  <2> QED
    BY <2>1 DEF Apart
<1>10. /\ h.lfree \in DOMAIN w
       /\ \A q \in FreeBlocks(w) \union {End} : h.lfree <= q
  <2> DEFINE S == F \union {End}
  <2>1. S \in SUBSET Nat /\ h.lfree \in S /\ \A x \in S : h.lfree <= x
    BY <1>3, FirstFree
  <2>2. End \in DOMAIN w /\ FreeBlocks(m) \subseteq DOMAIN w
    BY <1>6 DEF Linked, FreeBlocks, Blocks
  <2>3. h.lfree \in DOMAIN w
    BY <2>1, <2>2, <1>5
  <2>4. p \in S /\ h.lfree <= p /\ h.lfree <= End /\ h.lfree \in Nat
    BY <2>1
  <2>5. ASSUME NEW q \in FreeBlocks(w) PROVE h.lfree <= q
    <3>1. q \in F \/ (p < q /\ q \in Nat)
      BY <1>5, <1>8
    <3>2. CASE q \in F
      BY <3>2, <2>1
    <3>3. CASE p < q /\ q \in Nat
      BY <3>3, <2>4, <1>4
    <3> QED
      BY <3>1, <3>2, <3>3
  <2> QED
    BY <2>3, <2>4, <2>5
<1>11. h2.used = Cardinality(Covered(w, UsedBlocks(w)))
  <2>1. U \in SUBSET Blocks(m) /\ p \notin U
    BY <1>5 DEF UsedBlocks
  <2> DEFINE V == U \union {p}
  <2>2. V \in SUBSET Blocks(w) /\ V \ {p} = U /\ p \in V
    BY <2>1, <1>8 DEF UsedBlocks
  <2>3. \A q \in U : w[q].next = h.mem[q].next
    BY <1>5, <1>6, <2>1 DEF Blocks
  <2>4. U \in SUBSET Blocks(h.mem)
    BY DEF UsedBlocks
  <2>5. w[p].next = m[p].next
    BY <1>6, <1>7
  <2> HIDE DEF V, U
  <2>6. Cardinality(Covered(w, V)) = Cardinality(Covered(w, V \ {p})) + (w[p].next - p)
    BY <2>2, <1>6, CoveredStep
  <2>7. Covered(w, U) = Covered(h.mem, U)
    BY <2>3, CoveredSame
  <2> QED
    BY <2>2, <2>5, <2>6, <2>7, <1>2, <1>3, <1>8 DEF V
<1> HIDE DEF h2
<1> DEFINE g == LfreeMoved(h2)
<1>12. /\ g.mem = w /\ g.used = h2.used
       /\ g.lfree = Min(FreeBlocks(w) \union {End})
  <2>1. /\ g.mem = h2.mem /\ g.used = h2.used
        /\ g.lfree = Min(FreeBlocks(h2.mem) \union {End})
    <3>1. /\ Typed(h2.mem) /\ Linked(h2.mem) /\ h2.lfree \in DOMAIN h2.mem
          /\ \A q \in FreeBlocks(h2.mem) \union {End} : h2.lfree <= q
      BY <1>2, <1>6, <1>10
    <3> QED
      BY <3>1, LfreeMovedFirst
  <2> HIDE DEF g
  <2> QED
    BY <2>1, <1>2
<1> HIDE DEF g
<1>13. HeapOK(g)
  BY <1>6, <1>9, <1>11, <1>12 DEF HeapOK, Sound
<1>14. ASSUME NEW q \in U PROVE g.mem[q].next = h.mem[q].next
  <2>1. q \in DOMAIN m
    BY <1>5 DEF UsedBlocks, Blocks
  <2> QED
    BY <2>1, <1>5, <1>6, <1>12
<1>15. g.mem[p].next >= p + Header + size
  BY <1>5, <1>6, <1>7, <1>12
<1>16. Given(h, g, p, size)
  BY <1>8, <1>12, <1>13, <1>14, <1>15 DEF Given
<1> QED
  BY <1>1, <1>16 DEF g

(* rt_malloc that finds a block                                             *)
LEMMA MallocSound ==
  ASSUME NEW h, HeapOK(h), NEW size \in Nat, ~MallocFails(h, size)
  PROVE  Given(h, Malloc(h, size), MallocAt(h, size), size)
<1> DEFINE r == Rounded(size)
           p == MallocAt(h, size)
<1>1. r \in Nat /\ r >= size
  BY EndType DEF Rounded
<1>2. Fits(h, r) # {} /\ p = Min(Fits(h, r)) /\ Malloc(h, size) = Taken(h, p, r)
  BY DEF MallocFails, Malloc, MallocAt
<1>3. Typed(h.mem) /\ Linked(h.mem)
  BY HeapFacts DEF SoundFacts
<1> HIDE DEF r, p
<1>4. Fits(h, r) \in SUBSET Nat
  BY <1>3, HeaderType DEF Fits
<1>5. p \in Fits(h, r)
  BY <1>2, <1>4, MinExists
<1>6. p \in FreeBlocks(h.mem) /\ Room(h, p) >= r
  BY <1>3, <1>5 DEF Fits, FreeBlocks, Blocks, Linked
<1>7. Given(h, Taken(h, p, r), p, r)
  BY <1>1, <1>6, TakenSound
<1> DEFINE g == Taken(h, p, r)
<1>8. g.mem[p].next >= p + Header + size
  <2> HIDE DEF g
  <2>1. p \in UsedBlocks(g.mem) /\ g.mem[p].next >= p + Header + r /\ Typed(g.mem)
    BY <1>7 DEF Given, g, HeapOK
  <2>2. p \in Nat /\ g.mem[p].next \in Nat
    BY <2>1, HeaderType DEF UsedBlocks, Blocks
  <2> QED
    BY <2>1, <2>2, <1>1, EndType
<1>9. Given(h, g, p, size)
  <2> HIDE DEF g
  <2> QED
    BY <1>7, <1>8 DEF Given, g
<1> QED
  BY <1>2, <1>9 DEF p

-----------------------------------------------------------------------------
(* Who has which block. *)

\* BlocksOwned of any heap.
Owned(h, own, need) ==
  /\ \A o \in Owner : own[o] # None =>
       own[o] \in UsedBlocks(h.mem) /\ Room(h, own[o]) >= need[o]
  /\ \A o, q \in Owner : own[o] = own[q] /\ own[o] # None => o = q
  /\ \A p \in UsedBlocks(h.mem) : \E o \in Owner : own[o] = p

(* The room of a block is a number, and a block fits into the heap.         *)
LEMMA RoomType ==
  ASSUME NEW h, HeapOK(h), NEW p \in UsedBlocks(h.mem)
  PROVE  /\ p \in 0 .. End - 1 /\ p \in Nat /\ p # None
         /\ h.mem[p].next \in Nat
         /\ Room(h, p) \in Int
<1>1. p \in DOMAIN h.mem /\ p # End
  BY DEF UsedBlocks, Blocks
<1>2. p \in Nat /\ p <= End /\ h.mem[p].next \in Nat
  BY <1>1, HeaderType DEF HeapOK
<1> QED
  BY <1>1, <1>2, EndType, ReclaimConstants DEF Room

(* A new block goes to one who had none.                                    *)
LEMMA OwnedGiven ==
  ASSUME NEW h, NEW g, NEW p, NEW size \in Nat, HeapOK(h), Given(h, g, p, size),
         NEW own, NEW need \in [Owner -> Nat], Owned(h, own, need),
         NEW own2, NEW need2 \in [Owner -> Nat], NEW o \in Owner,
         own[o] = None, own2[o] = p, need2[o] = size,
         \A q \in Owner \ {o} : own2[q] = own[q] /\ (own[q] # None => need2[q] <= need[q])
  PROVE  Owned(g, own2, need2)
<1>1. /\ HeapOK(g)
      /\ p \in FreeBlocks(h.mem)
      /\ UsedBlocks(g.mem) = UsedBlocks(h.mem) \union {p}
      /\ \A q \in UsedBlocks(h.mem) : g.mem[q].next = h.mem[q].next
      /\ g.mem[p].next >= p + Header + size
  BY DEF Given
<1>2. p \notin UsedBlocks(h.mem)
  BY <1>1 DEF FreeBlocks, UsedBlocks
<1>3. p \in UsedBlocks(g.mem) /\ p # None /\ Room(g, p) >= size
  <2>1. p \in UsedBlocks(g.mem)
    BY <1>1
  <2>2. p \in Nat /\ g.mem[p].next \in Nat /\ p # None
    BY <2>1, <1>1, RoomType
  <2> QED
    BY <2>1, <2>2, <1>1, EndType DEF Room
<1>4. ASSUME NEW q \in Owner, own2[q] # None
      PROVE  own2[q] \in UsedBlocks(g.mem) /\ Room(g, own2[q]) >= need2[q]
  <2>1. CASE q = o
    BY <2>1, <1>3
  <2>2. CASE q # o
    <3>1. own2[q] = own[q] /\ need2[q] <= need[q] /\ need2[q] \in Nat /\ need[q] \in Nat
      BY <2>2, <1>4
    <3>2. own[q] \in UsedBlocks(h.mem) /\ Room(h, own[q]) >= need[q]
      BY <1>4, <3>1 DEF Owned
    <3>3. Room(g, own[q]) = Room(h, own[q]) /\ Room(h, own[q]) \in Int
      BY <3>2, <1>1, RoomType DEF Room
    <3> QED
      BY <3>1, <3>2, <3>3, <1>1
  <2> QED
    BY <2>1, <2>2
<1>5. ASSUME NEW q \in Owner, NEW r \in Owner, own2[q] = own2[r], own2[q] # None
      PROVE  q = r
  <2>1. CASE q # o /\ r # o
    <3>1. own[q] = own[r] /\ own[q] # None
      BY <1>5, <2>1
    <3> QED
      BY <3>1 DEF Owned
  <2>2. CASE q = o /\ r # o
    <3>1. own[r] = p /\ own[r] # None
      BY <1>5, <2>2
    <3> QED
      BY <3>1, <1>2 DEF Owned
  <2>3. CASE q # o /\ r = o
    <3>1. own[q] = p /\ own[q] # None
      BY <1>5, <2>3
    <3> QED
      BY <3>1, <1>2 DEF Owned
  <2>4. CASE q = o /\ r = o
    BY <2>4
  <2> QED
    BY <2>1, <2>2, <2>3, <2>4
<1>6. ASSUME NEW x \in UsedBlocks(g.mem) PROVE \E q \in Owner : own2[q] = x
  <2>1. CASE x = p
    BY <2>1
  <2>2. CASE x # p
    <3>1. x \in UsedBlocks(h.mem)
      BY <2>2, <1>1
    <3>2. PICK q \in Owner : own[q] = x
      BY <3>1 DEF Owned
    <3>3. x # None
      BY <3>1, RoomType
    <3> QED
      BY <3>2, <3>3
  <2> QED
    BY <2>1, <2>2
<1> QED
  BY <1>4, <1>5, <1>6 DEF Owned

(* A block is given back by the one who had it.                             *)
LEMMA OwnedFreed ==
  ASSUME NEW h, HeapOK(h),
         NEW own, NEW need \in [Owner -> Nat], Owned(h, own, need),
         NEW own2, NEW need2 \in [Owner -> Nat], NEW o \in Owner,
         own[o] # None, own2[o] = None,
         \A q \in Owner \ {o} : own2[q] = own[q] /\ (own[q] # None => need2[q] <= need[q])
  PROVE  LET g == Free(h, own[o])
         IN  HeapOK(g) /\ Owned(g, own2, need2)
<1> DEFINE p == own[o]
           g == Free(h, p)
<1>1. p \in UsedBlocks(h.mem)
  BY DEF Owned
<1>2. /\ HeapOK(g)
      /\ UsedBlocks(g.mem) = UsedBlocks(h.mem) \ {p}
      /\ \A q \in UsedBlocks(h.mem) \ {p} : g.mem[q].next = h.mem[q].next
  BY <1>1, FreeSound
<1> HIDE DEF g
<1>3. ASSUME NEW q \in Owner, own2[q] # None
      PROVE  own2[q] \in UsedBlocks(g.mem) /\ Room(g, own2[q]) >= need2[q]
  <2>1. q # o
    BY <1>3
  <2>2. own2[q] = own[q] /\ need2[q] <= need[q] /\ need2[q] \in Nat /\ need[q] \in Nat
    BY <2>1, <1>3
  <2>3. own[q] \in UsedBlocks(h.mem) /\ Room(h, own[q]) >= need[q] /\ own[q] # p
    BY <1>3, <2>1, <2>2 DEF Owned
  <2>4. Room(g, own[q]) = Room(h, own[q]) /\ Room(h, own[q]) \in Int
    BY <2>3, <1>2, RoomType DEF Room
  <2> QED
    BY <2>2, <2>3, <2>4, <1>2
<1>4. ASSUME NEW q \in Owner, NEW r \in Owner, own2[q] = own2[r], own2[q] # None
      PROVE  q = r
  <2>1. q # o /\ r # o
    BY <1>4
  <2>2. own[q] = own[r] /\ own[q] # None
    BY <1>4, <2>1
  <2> QED
    BY <2>2 DEF Owned
<1>5. ASSUME NEW x \in UsedBlocks(g.mem) PROVE \E q \in Owner : own2[q] = x
  <2>1. x \in UsedBlocks(h.mem) /\ x # p
    BY <1>2
  <2>2. PICK q \in Owner : own[q] = x
    BY <2>1 DEF Owned
  <2> QED
    BY <2>1, <2>2
<1>6. Owned(g, own2, need2)
  BY <1>3, <1>4, <1>5 DEF Owned
<1> QED
  BY <1>2, <1>6 DEF g

(* One hands his block to another, who has none.                            *)
LEMMA OwnedHanded ==
  ASSUME NEW h, HeapOK(h),
         NEW own, NEW need \in [Owner -> Nat], Owned(h, own, need),
         NEW own2, NEW need2 \in [Owner -> Nat],
         NEW from \in Owner, NEW to \in Owner, from # to,
         own[to] = None, own2[to] = own[from], own2[from] = None,
         need2[to] <= need[from],
         \A q \in Owner \ {from, to} : own2[q] = own[q] /\ (own[q] # None => need2[q] <= need[q])
  PROVE  Owned(h, own2, need2)
<1> DEFINE was(q) == IF q = to THEN from ELSE q
<1>1. ASSUME NEW q \in Owner, own2[q] # None
      PROVE  /\ was(q) \in Owner /\ own2[q] = own[was(q)]
             /\ need2[q] <= need[was(q)] /\ q # from
  BY <1>1
<1>2. ASSUME NEW q \in Owner, own2[q] # None
      PROVE  own2[q] \in UsedBlocks(h.mem) /\ Room(h, own2[q]) >= need2[q]
  <2> DEFINE w == was(q)
  <2>1. w \in Owner /\ own2[q] = own[w] /\ need2[q] <= need[w]
    BY <1>1, <1>2
  <2> HIDE DEF w
  <2>2. own[w] \in UsedBlocks(h.mem) /\ Room(h, own[w]) >= need[w]
    BY <2>1, <1>2 DEF Owned
  <2>3. Room(h, own[w]) \in Int /\ need2[q] \in Nat /\ need[w] \in Nat
    BY <2>1, <2>2, RoomType
  <2> QED
    BY <2>1, <2>2, <2>3
<1>3. ASSUME NEW q \in Owner, NEW r \in Owner, own2[q] = own2[r], own2[q] # None
      PROVE  q = r
  <2>1. /\ was(q) \in Owner /\ own2[q] = own[was(q)] /\ q # from
        /\ was(r) \in Owner /\ own2[r] = own[was(r)] /\ r # from
    BY <1>1, <1>3
  <2> HIDE DEF was
  <2>2. was(q) = was(r)
    BY <2>1, <1>3 DEF Owned
  <2> QED
    BY <2>1, <2>2 DEF was
<1>4. ASSUME NEW x \in UsedBlocks(h.mem) PROVE \E q \in Owner : own2[q] = x
  <2>1. PICK q \in Owner : own[q] = x
    BY DEF Owned
  <2>2. x # None
    BY RoomType
  <2>3. CASE q = from
    BY <2>1, <2>3
  <2>4. CASE q # from
    BY <2>1, <2>2, <2>4
  <2> QED
    BY <2>3, <2>4
<1> QED
  BY <1>2, <1>3, <1>4 DEF Owned

(* The heap keeps everybody's block; only the sizes needed change, and not  *)
(* beyond what there is.                                                    *)
LEMMA OwnedKept ==
  ASSUME NEW h, NEW g, HeapOK(h),
         NEW own, NEW need \in [Owner -> Nat], Owned(h, own, need),
         NEW need2 \in [Owner -> Nat], NEW o \in Owner,
         UsedBlocks(g.mem) = UsedBlocks(h.mem),
         \A x \in UsedBlocks(h.mem) \ {own[o]} : g.mem[x].next = h.mem[x].next,
         own[o] # None => Room(g, own[o]) >= need2[o],
         \A q \in Owner \ {o} : own[q] # None => need2[q] <= need[q]
  PROVE  Owned(g, own, need2)
<1>1. ASSUME NEW q \in Owner, own[q] # None
      PROVE  own[q] \in UsedBlocks(g.mem) /\ Room(g, own[q]) >= need2[q]
  <2>1. own[q] \in UsedBlocks(h.mem) /\ Room(h, own[q]) >= need[q]
    BY <1>1 DEF Owned
  <2>2. CASE q = o
    BY <2>1, <2>2, <1>1
  <2>3. CASE q # o
    <3>1. own[q] # own[o]
      BY <2>3, <1>1 DEF Owned
    <3>2. Room(g, own[q]) = Room(h, own[q]) /\ Room(h, own[q]) \in Int
      BY <3>1, <2>1, RoomType DEF Room
    <3>3. need2[q] <= need[q] /\ need2[q] \in Nat /\ need[q] \in Nat
      BY <2>3, <1>1
    <3> QED
      BY <2>1, <3>2, <3>3
  <2> QED
    BY <2>2, <2>3
<1>2. /\ \A q, r \in Owner : own[q] = own[r] /\ own[q] # None => q = r
      /\ \A p \in UsedBlocks(g.mem) : \E q \in Owner : own[q] = p
  BY DEF Owned
<1> QED
  BY <1>1, <1>2 DEF Owned

-----------------------------------------------------------------------------
(* A heap is a record of three fields, before and after every call. *)

IsHeap(h) == h = [mem |-> h.mem, lfree |-> h.lfree, used |-> h.used]

(* A record of three such fields is a heap.                                 *)
LEMMA RecordIsHeap ==
  \A m, l, u : IsHeap([mem |-> m, lfree |-> l, used |-> u])
BY DEF IsHeap

(* Joining returns a heap.                                                  *)
LEMMA JoinedIsHeap == \A h, p, n : IsHeap(Joined(h, p, n))
BY RecordIsHeap DEF Joined

(* plug_holes returns a heap.                                               *)
LEMMA PlugHolesIsHeap ==
  ASSUME NEW h, IsHeap(h), NEW p
  PROVE  IsHeap(PlugHoles(h, p))
BY JoinedIsHeap, Zenon DEF PlugHoles

(* Each call returns a heap.                                                *)
LEMMA CallsIsHeap ==
  ASSUME NEW h, NEW p, NEW size
  PROVE  IsHeap(Free(h, p)) /\ IsHeap(Shrunk(h, p, size)) /\ IsHeap(Malloc(h, size))
<1>1. IsHeap(Free(h, p))
  BY RecordIsHeap, PlugHolesIsHeap, Zenon DEF Free
<1>2. IsHeap(Shrunk(h, p, size))
  BY RecordIsHeap, PlugHolesIsHeap, Zenon DEF Shrunk
<1>3. \A g : IsHeap(g) => IsHeap(LfreeMoved(g))
  BY RecordIsHeap, Zenon DEF LfreeMoved
<1>4. \A q, s : IsHeap(Taken(h, q, s))
  BY <1>3, RecordIsHeap, Zenon DEF Taken
<1>5. IsHeap(Malloc(h, size))
  BY <1>4, Zenon DEF Malloc
<1> QED
  BY <1>1, <1>2, <1>5

\* TypeOK's part about the heap.
HeapTyped(h) ==
  /\ DOMAIN h.mem \subseteq 0 .. End
  /\ h \in [mem : [DOMAIN h.mem -> Headers], lfree : 0 .. End, used : 0 .. End]

(* A heap that is right has the type that TypeOK states.                    *)
LEMMA HeapType ==
  ASSUME NEW h
  PROVE  /\ HeapTyped(h) /\ Sound(h) => HeapOK(h) /\ IsHeap(h)
         /\ HeapOK(h) /\ IsHeap(h) => HeapTyped(h) /\ Sound(h)
<1>1. ASSUME HeapTyped(h), Sound(h) PROVE HeapOK(h) /\ IsHeap(h)
  <2>1. Typed(h.mem)
    BY <1>1 DEF HeapTyped, Typed
  <2>2. IsHeap(h)
    BY <1>1 DEF HeapTyped, IsHeap
  <2> QED
    BY <1>1, <2>1, <2>2 DEF HeapOK
<1>2. ASSUME HeapOK(h), IsHeap(h) PROVE HeapTyped(h) /\ Sound(h)
  <2>1. SoundFacts(h)
    BY <1>2, HeapFacts
  <2>2. Typed(h.mem) /\ Linked(h.mem)
    BY <2>1 DEF SoundFacts
  <2>3. h.lfree \in 0 .. End
    <3>1. h.lfree \in DOMAIN h.mem
      BY <2>1, <2>2, FirstFree DEF SoundFacts
    <3> QED
      BY <3>1, <2>2 DEF Typed
  <2>4. h.used \in 0 .. End
    <3>1. UsedBlocks(h.mem) \in SUBSET Blocks(h.mem)
      BY DEF UsedBlocks
    <3> QED
      BY <3>1, <2>1, <2>2, CoveredFinite DEF SoundFacts
  <2>5. h.mem \in [DOMAIN h.mem -> Headers] /\ DOMAIN h.mem \subseteq 0 .. End
    BY <2>2 DEF Typed
  <2>6. h = [mem |-> h.mem, lfree |-> h.lfree, used |-> h.used]
    BY <1>2 DEF IsHeap
  <2> DEFINE M == [DOMAIN h.mem -> Headers]
  <2>7. h.mem \in M
    BY <2>5
  <2> HIDE DEF M
  <2>8. [mem |-> h.mem, lfree |-> h.lfree, used |-> h.used]
          \in [mem : M, lfree : 0 .. End, used : 0 .. End]
    BY <2>3, <2>4, <2>7
  <2>9. h \in [mem : M, lfree : 0 .. End, used : 0 .. End]
    BY <2>6, <2>8, Zenon
  <2> QED
    BY <1>2, <2>5, <2>9 DEF HeapTyped, HeapOK, M
<1> QED
  BY <1>1, <1>2

-----------------------------------------------------------------------------
(* The inductive invariant. *)

\* Where the system thread, a thread's life and rt_realloc stand says who has
\* something.
StepsExact ==
  /\ victim # None <=> system \in {"stack", "unlist", "object"}
  /\ \A t \in Thread : object[t] # None <=> stage[t] # "none"
  /\ Idle \/ buffer # None

\* A thread under deletion is not closed, and one call deletes it.
EndedOnce ==
  /\ EndsAlone
  /\ \A d \in Deleter : target[d] # None => stage[target[d]] \in {"made", "live"}
  /\ \A c, d \in Deleter : target[c] = target[d] /\ target[c] # None => c = d

Inv == TypeOK /\ HeapExact /\ NothingLeaked /\ StepsExact /\ EndedOnce

HeapInv == HeapOK(heap) /\ IsHeap(heap) /\ BlocksOwned

(* BlocksOwned is Owned of the variables, now and after a step.             *)
LEMMA OwnedNow ==
  /\ BlocksOwned <=> Owned(heap, Own, Need)
  /\ BlocksOwned' <=> Owned(heap', Own', Need')
BY DEF BlocksOwned, Owned

(* The block and the need of each owner.                                    *)
LEMMA OwnValues ==
  /\ \A t \in Thread : /\ <<t, "object">> \in Owner /\ Own[<<t, "object">>] = object[t]
                       /\ <<t, "stack">> \in Owner /\ Own[<<t, "stack">>] = stack[t]
                       /\ Need[<<t, "object">>] = ObjectSize
                       /\ Need[<<t, "stack">>] = StackSize
  /\ <<None, "buffer">> \in Owner /\ Own[<<None, "buffer">>] = buffer
  /\ <<None, "moved">> \in Owner /\ Own[<<None, "moved">>] = moved
  /\ Need[<<None, "buffer">>] = IF Idle THEN length ELSE 0
  /\ Need[<<None, "moved">>] = length
BY DEF Owner, Own, Need

(* The same after a step.                                                   *)
LEMMA OwnValuesNext ==
  /\ \A t \in Thread : /\ Own'[<<t, "object">>] = object'[t]
                       /\ Own'[<<t, "stack">>] = stack'[t]
                       /\ Need'[<<t, "object">>] = ObjectSize
                       /\ Need'[<<t, "stack">>] = StackSize
  /\ Own'[<<None, "buffer">>] = buffer'
  /\ Own'[<<None, "moved">>] = moved'
  /\ Need'[<<None, "buffer">>] = IF moved' = None THEN length' ELSE 0
  /\ Need'[<<None, "moved">>] = length'
BY DEF Owner, Own, Need, Idle

(* The owners are the threads' objects and stacks, and the user's two       *)
(* pointers.                                                                *)
LEMMA OwnerForms ==
  ASSUME NEW o \in Owner
  PROVE  \/ \E t \in Thread : o = <<t, "object">> \/ o = <<t, "stack">>
         \/ o = <<None, "buffer">> \/ o = <<None, "moved">>
BY DEF Owner

(* What an owner needs is a number.                                         *)
LEMMA NeedType ==
  /\ length \in Nat => Need \in [Owner -> Nat]
  /\ length' \in Nat => Need' \in [Owner -> Nat]
<1>0. ObjectSize \in Nat /\ StackSize \in Nat
  BY ReclaimConstants
<1>1. ASSUME length \in Nat PROVE Need \in [Owner -> Nat]
  <2>1. ASSUME NEW o \in Owner PROVE Need[o] \in Nat
    <3>1. CASE \E u \in Thread : o = <<u, "object">>
      <4>1. PICK u \in Thread : o = <<u, "object">>
        BY <3>1
      <4> QED
        BY <4>1, <1>0, <1>1, OwnValues
    <3>2. CASE \E u \in Thread : o = <<u, "stack">>
      <4>1. PICK u \in Thread : o = <<u, "stack">>
        BY <3>2
      <4> QED
        BY <4>1, <1>0, <1>1, OwnValues
    <3>3. CASE o = <<None, "buffer">>
      BY <3>3, <1>0, <1>1, OwnValues
    <3>4. CASE o = <<None, "moved">>
      BY <3>4, <1>0, <1>1, OwnValues
    <3> QED
      BY <3>1, <3>2, <3>3, <3>4, OwnerForms, Zenon
  <2> QED
    BY <2>1 DEF Need
<1>2. ASSUME length' \in Nat PROVE Need' \in [Owner -> Nat]
  <2>1. ASSUME NEW o \in Owner PROVE Need'[o] \in Nat
    <3>1. CASE \E u \in Thread : o = <<u, "object">>
      <4>1. PICK u \in Thread : o = <<u, "object">>
        BY <3>1
      <4> QED
        BY <4>1, <1>0, <1>2, OwnValuesNext
    <3>2. CASE \E u \in Thread : o = <<u, "stack">>
      <4>1. PICK u \in Thread : o = <<u, "stack">>
        BY <3>2
      <4> QED
        BY <4>1, <1>0, <1>2, OwnValuesNext
    <3>3. CASE o = <<None, "buffer">>
      BY <3>3, <1>0, <1>2, OwnValuesNext
    <3>4. CASE o = <<None, "moved">>
      BY <3>4, <1>0, <1>2, OwnValuesNext
    <3> QED
      BY <3>1, <3>2, <3>3, <3>4, OwnerForms, Zenon
  <2> QED
    BY <2>1 DEF Need
<1> QED
  BY <1>1, <1>2

(* What changes hands when one pointer of a thread changes.                 *)
LEMMA ObjectStep ==
  ASSUME TypeOK, NEW t \in Thread, NEW x, object' = [object EXCEPT ![t] = x],
         UNCHANGED <<stack, userVars>>
  PROVE  /\ Own'[<<t, "object">>] = x
         /\ \A q \in Owner \ {<<t, "object">>} : Own'[q] = Own[q]
         /\ \A q \in Owner : Need'[q] = Need[q]
<1>1. /\ object' \in [Thread -> {object[u] : u \in Thread} \union {x}] /\ object'[t] = x
      /\ \A u \in Thread \ {t} : object'[u] = object[u]
      /\ stack' = stack /\ buffer' = buffer /\ moved' = moved /\ length' = length
  BY DEF TypeOK, userVars
<1>2. Own'[<<t, "object">>] = x
  BY <1>1, OwnValuesNext
<1>3. ASSUME NEW q \in Owner \ {<<t, "object">>} PROVE Own'[q] = Own[q]
  <2>1. CASE \E u \in Thread : q = <<u, "object">>
    <3>1. PICK u \in Thread : q = <<u, "object">>
      BY <2>1
    <3>2. Own[q] = object[u] /\ Own'[q] = object'[u]
      BY <3>1, OwnValues, OwnValuesNext
    <3>3. u # t
      BY <3>1
    <3> QED
      BY <3>2, <3>3, <1>1
  <2>2. CASE \E u \in Thread : q = <<u, "stack">>
    <3>1. PICK u \in Thread : q = <<u, "stack">>
      BY <2>2
    <3>2. Own[q] = stack[u] /\ Own'[q] = stack'[u]
      BY <3>1, OwnValues, OwnValuesNext
    <3> QED
      BY <3>2, <1>1
  <2>3. CASE q = <<None, "buffer">>
    BY <2>3, <1>1, OwnValues, OwnValuesNext
  <2>4. CASE q = <<None, "moved">>
    BY <2>4, <1>1, OwnValues, OwnValuesNext
  <2> QED
    BY <2>1, <2>2, <2>3, <2>4, OwnerForms, Zenon
<1>4. ASSUME NEW q \in Owner PROVE Need'[q] = Need[q]
  <2>1. CASE \E u \in Thread : q = <<u, "object">>
    <3>1. PICK u \in Thread : q = <<u, "object">>
      BY <2>1
    <3> QED
      BY <3>1, <1>1, OwnValues, OwnValuesNext DEF Idle
  <2>2. CASE \E u \in Thread : q = <<u, "stack">>
    <3>1. PICK u \in Thread : q = <<u, "stack">>
      BY <2>2
    <3> QED
      BY <3>1, <1>1, OwnValues, OwnValuesNext DEF Idle
  <2>3. CASE q = <<None, "buffer">>
    BY <2>3, <1>1, OwnValues, OwnValuesNext DEF Idle
  <2>4. CASE q = <<None, "moved">>
    BY <2>4, <1>1, OwnValues, OwnValuesNext DEF Idle
  <2> QED
    BY <2>1, <2>2, <2>3, <2>4, OwnerForms, Zenon
<1> QED
  BY <1>2, <1>3, <1>4

(* What changes hands when the stack of a thread changes.                   *)
LEMMA StackStep ==
  ASSUME TypeOK, NEW t \in Thread, NEW x, stack' = [stack EXCEPT ![t] = x],
         UNCHANGED <<object, userVars>>
  PROVE  /\ Own'[<<t, "stack">>] = x
         /\ \A q \in Owner \ {<<t, "stack">>} : Own'[q] = Own[q]
         /\ \A q \in Owner : Need'[q] = Need[q]
<1>1. /\ stack'[t] = x
      /\ \A u \in Thread \ {t} : stack'[u] = stack[u]
      /\ object' = object /\ buffer' = buffer /\ moved' = moved /\ length' = length
  BY DEF TypeOK, userVars
<1>2. Own'[<<t, "stack">>] = x
  BY <1>1, OwnValuesNext
<1>3. ASSUME NEW q \in Owner \ {<<t, "stack">>} PROVE Own'[q] = Own[q]
  <2>1. CASE \E u \in Thread : q = <<u, "object">>
    <3>1. PICK u \in Thread : q = <<u, "object">>
      BY <2>1
    <3>2. Own[q] = object[u] /\ Own'[q] = object'[u]
      BY <3>1, OwnValues, OwnValuesNext
    <3> QED
      BY <3>2, <1>1
  <2>2. CASE \E u \in Thread : q = <<u, "stack">>
    <3>1. PICK u \in Thread : q = <<u, "stack">>
      BY <2>2
    <3>2. Own[q] = stack[u] /\ Own'[q] = stack'[u]
      BY <3>1, OwnValues, OwnValuesNext
    <3>3. u # t
      BY <3>1
    <3> QED
      BY <3>2, <3>3, <1>1
  <2>3. CASE q = <<None, "buffer">>
    BY <2>3, <1>1, OwnValues, OwnValuesNext
  <2>4. CASE q = <<None, "moved">>
    BY <2>4, <1>1, OwnValues, OwnValuesNext
  <2> QED
    BY <2>1, <2>2, <2>3, <2>4, OwnerForms, Zenon
<1>4. ASSUME NEW q \in Owner PROVE Need'[q] = Need[q]
  <2>1. CASE \E u \in Thread : q = <<u, "object">>
    <3>1. PICK u \in Thread : q = <<u, "object">>
      BY <2>1
    <3> QED
      BY <3>1, <1>1, OwnValues, OwnValuesNext DEF Idle
  <2>2. CASE \E u \in Thread : q = <<u, "stack">>
    <3>1. PICK u \in Thread : q = <<u, "stack">>
      BY <2>2
    <3> QED
      BY <3>1, <1>1, OwnValues, OwnValuesNext DEF Idle
  <2>3. CASE q = <<None, "buffer">>
    BY <2>3, <1>1, OwnValues, OwnValuesNext DEF Idle
  <2>4. CASE q = <<None, "moved">>
    BY <2>4, <1>1, OwnValues, OwnValuesNext DEF Idle
  <2> QED
    BY <2>1, <2>2, <2>3, <2>4, OwnerForms, Zenon
<1> QED
  BY <1>2, <1>3, <1>4

(* The user's steps leave what the threads have.                            *)
LEMMA UserStep ==
  ASSUME UNCHANGED <<object, stack>>
  PROVE  \A q \in Owner \ {<<None, "buffer">>, <<None, "moved">>} :
           Own'[q] = Own[q] /\ Need'[q] = Need[q]
<1> SUFFICES ASSUME NEW q \in Owner, q # <<None, "buffer">>, q # <<None, "moved">>
             PROVE  Own'[q] = Own[q] /\ Need'[q] = Need[q]
  OBVIOUS
<1>1. CASE \E u \in Thread : q = <<u, "object">>
  <2>1. PICK u \in Thread : q = <<u, "object">>
    BY <1>1
  <2> QED
    BY <2>1, OwnValues, OwnValuesNext
<1>2. CASE \E u \in Thread : q = <<u, "stack">>
  <2>1. PICK u \in Thread : q = <<u, "stack">>
    BY <1>2
  <2> QED
    BY <2>1, OwnValues, OwnValuesNext
<1>3. CASE q = <<None, "buffer">>
  BY <1>3, OwnValues, OwnValuesNext
<1>4. CASE q = <<None, "moved">>
  BY <1>4, OwnValues, OwnValuesNext
<1> QED
  BY <1>1, <1>2, <1>3, <1>4, OwnerForms, Zenon

(* A step without a heap call that leaves all pointers alone.               *)
LEMMA NobodyStep ==
  ASSUME UNCHANGED <<heap, object, stack, userVars>>, HeapInv
  PROVE  HeapInv'
<1>1. Own' = Own /\ Need' = Need /\ heap' = heap
  BY DEF Own, Need, Idle, userVars
<1>2. BlocksOwned'
  BY <1>1, OwnedNow DEF HeapInv
<1> QED
  BY <1>1, <1>2 DEF HeapInv

(* What the invariant says of the heap and its owners.                      *)
LEMMA InvFacts ==
  ASSUME Inv
  PROVE  /\ HeapOK(heap) /\ IsHeap(heap) /\ Owned(heap, Own, Need)
         /\ HeapInv
         /\ length \in Nat /\ Need \in [Owner -> Nat]
<1>1. HeapTyped(heap) /\ Sound(heap) /\ length \in Nat
  BY ReclaimConstants DEF Inv, TypeOK, HeapTyped, HeapExact
<1>2. HeapOK(heap) /\ IsHeap(heap)
  BY <1>1, HeapType
<1>3. BlocksOwned
  BY DEF Inv, NothingLeaked
<1> QED
  BY <1>1, <1>2, <1>3, OwnedNow, NeedType DEF HeapInv

(* A heap that is right with everybody's block owned, put together after a  *)
(* step.                                                                    *)
LEMMA HeapInvNext ==
  ASSUME HeapOK(heap'), IsHeap(heap'), Owned(heap', Own', Need')
  PROVE  HeapInv'
<1>1. BlocksOwned'
  BY OwnedNow
<1> QED
  BY <1>1 DEF HeapInv

\* Where a pointer that is there points to.
LEMMA OwnedBlock ==
  ASSUME Inv, NEW o \in Owner, Own[o] # None
  PROVE  Own[o] \in UsedBlocks(heap.mem)
BY InvFacts DEF Owned

(* rt_object_allocate, with or without memory for the object.               *)
LEMMA CreateObjectHeap ==
  ASSUME Inv, NEW t \in Thread, CreateObject(t)
  PROVE  HeapInv'
<1> DEFINE x == MallocAt(heap, ObjectSize)
           o == <<t, "object">>
<1>1. /\ ~MallocFails(heap, ObjectSize) /\ heap' = Malloc(heap, ObjectSize)
      /\ object' = [object EXCEPT ![t] = x]
      /\ UNCHANGED <<stack, userVars>>
      /\ object[t] = None
      /\ ObjectSize \in Nat /\ TypeOK
  BY ReclaimConstants DEF CreateObject, Inv, StepsExact
<1>2. Given(heap, heap', x, ObjectSize)
  BY <1>1, InvFacts, MallocSound
<1> HIDE DEF x
<1>3. /\ Own'[o] = x
      /\ \A q \in Owner \ {o} : Own'[q] = Own[q]
      /\ \A q \in Owner : Need'[q] = Need[q]
  BY <1>1, ObjectStep
<1>4. o \in Owner /\ Own[o] = None /\ Need[o] = ObjectSize
  BY <1>1, OwnValues
<1>5. Need \in [Owner -> Nat] /\ Need' \in [Owner -> Nat]
  <2>1. length' \in Nat
    BY <1>1, InvFacts DEF userVars
  <2> QED
    BY <2>1, InvFacts, NeedType
<1> HIDE DEF o
<1>6. \A q \in Owner \ {o} : Own'[q] = Own[q] /\ (Own[q] # None => Need'[q] <= Need[q])
  BY <1>3, <1>5
<1>7. HeapOK(heap) /\ Owned(heap, Own, Need)
  BY InvFacts
<1>8. Need'[o] = ObjectSize
  BY <1>3, <1>4
<1>9. Owned(heap', Own', Need')
  BY <1>1, <1>2, <1>3, <1>4, <1>5, <1>6, <1>7, <1>8, OwnedGiven
<1>10. HeapOK(heap') /\ IsHeap(heap')
  BY <1>1, <1>2, CallsIsHeap DEF Given
<1> QED
  BY <1>9, <1>10, HeapInvNext

(* rt_thread_create, with or without memory for the stack.                  *)
LEMMA CreateStackHeap ==
  ASSUME Inv, NEW t \in Thread, CreateStack(t)
  PROVE  HeapInv'
<1> DEFINE x == MallocAt(heap, StackSize)
           o == <<t, "stack">>
<1>1. CASE MallocFails(heap, StackSize)
  <2>1. UNCHANGED <<heap, object, stack, userVars>>
    BY <1>1 DEF CreateStack
  <2> QED
    BY <2>1, InvFacts, NobodyStep
<1>2. CASE ~MallocFails(heap, StackSize)
  <2>1. /\ heap' = Malloc(heap, StackSize)
        /\ stack' = [stack EXCEPT ![t] = x]
        /\ UNCHANGED <<object, userVars>>
        /\ stage[t] = "listed"
        /\ StackSize \in Nat /\ TypeOK
    BY <1>2, ReclaimConstants DEF CreateStack, Inv
  <2>2. Given(heap, heap', x, StackSize)
    BY <1>2, <2>1, InvFacts, MallocSound
  <2> HIDE DEF x
  <2>3. /\ Own'[o] = x
        /\ \A q \in Owner \ {o} : Own'[q] = Own[q]
        /\ \A q \in Owner : Need'[q] = Need[q]
    BY <2>1, StackStep
  <2>4. o \in Owner /\ Own[o] = None /\ Need[o] = StackSize
    <3>1. stack[t] = None
      BY <2>1 DEF Inv, NothingLeaked, ObjectsListed
    <3> QED
      BY <3>1, OwnValues
  <2>5. Need \in [Owner -> Nat] /\ Need' \in [Owner -> Nat]
    <3>1. length' \in Nat
      BY <2>1, InvFacts DEF userVars
    <3> QED
      BY <3>1, InvFacts, NeedType
  <2> HIDE DEF o
  <2>6. \A q \in Owner \ {o} : Own'[q] = Own[q] /\ (Own[q] # None => Need'[q] <= Need[q])
    BY <2>3, <2>5
  <2>7. HeapOK(heap) /\ Owned(heap, Own, Need)
    BY InvFacts
  <2>8. Need'[o] = StackSize
    BY <2>3, <2>4
  <2>9. Owned(heap', Own', Need')
    BY <2>1, <2>2, <2>3, <2>4, <2>5, <2>6, <2>7, <2>8, OwnedGiven
  <2>10. HeapOK(heap') /\ IsHeap(heap')
    BY <2>1, <2>2, CallsIsHeap DEF Given
  <2> QED
    BY <2>9, <2>10, HeapInvNext
<1> QED
  BY <1>1, <1>2

(* rt_free of what one pointer of a thread points to.                       *)
LEMMA FreeObjectHeap ==
  ASSUME Inv, NEW t \in Thread, object[t] # None,
         heap' = Free(heap, object[t]), object' = [object EXCEPT ![t] = None],
         UNCHANGED <<stack, userVars>>
  PROVE  HeapInv'
<1> DEFINE o == <<t, "object">>
<1>1. /\ Own'[o] = None
      /\ \A q \in Owner \ {o} : Own'[q] = Own[q]
      /\ \A q \in Owner : Need'[q] = Need[q]
  BY ObjectStep DEF Inv
<1>2. o \in Owner /\ Own[o] # None /\ heap' = Free(heap, Own[o])
  BY OwnValues
<1>3. Need \in [Owner -> Nat] /\ Need' \in [Owner -> Nat]
  <2>1. length' \in Nat
    BY InvFacts DEF userVars
  <2> QED
    BY <2>1, InvFacts, NeedType
<1> HIDE DEF o
<1>4. \A q \in Owner \ {o} : Own'[q] = Own[q] /\ (Own[q] # None => Need'[q] <= Need[q])
  BY <1>1, <1>3
<1>5. HeapOK(heap) /\ Owned(heap, Own, Need)
  BY InvFacts
<1>6. HeapOK(heap') /\ Owned(heap', Own', Need')
  BY <1>1, <1>2, <1>3, <1>4, <1>5, OwnedFreed
<1>7. IsHeap(heap')
  BY CallsIsHeap
<1> QED
  BY <1>6, <1>7, HeapInvNext

(* rt_free of the stack of a thread.                                        *)
LEMMA FreeStackHeap ==
  ASSUME Inv, NEW t \in Thread, stack[t] # None,
         heap' = Free(heap, stack[t]), stack' = [stack EXCEPT ![t] = None],
         UNCHANGED <<object, userVars>>
  PROVE  HeapInv'
<1> DEFINE o == <<t, "stack">>
<1>1. /\ Own'[o] = None
      /\ \A q \in Owner \ {o} : Own'[q] = Own[q]
      /\ \A q \in Owner : Need'[q] = Need[q]
  BY StackStep DEF Inv
<1>2. o \in Owner /\ Own[o] # None /\ heap' = Free(heap, Own[o])
  BY OwnValues
<1>3. Need \in [Owner -> Nat] /\ Need' \in [Owner -> Nat]
  <2>1. length' \in Nat
    BY InvFacts DEF userVars
  <2> QED
    BY <2>1, InvFacts, NeedType
<1> HIDE DEF o
<1>4. \A q \in Owner \ {o} : Own'[q] = Own[q] /\ (Own[q] # None => Need'[q] <= Need[q])
  BY <1>1, <1>3
<1>5. HeapOK(heap) /\ Owned(heap, Own, Need)
  BY InvFacts
<1>6. HeapOK(heap') /\ Owned(heap', Own', Need')
  BY <1>1, <1>2, <1>3, <1>4, <1>5, OwnedFreed
<1>7. IsHeap(heap')
  BY CallsIsHeap
<1> QED
  BY <1>6, <1>7, HeapInvNext

\* What the last section of Exit and of DeleteClose does.
Closing(t) ==
  /\ stage[t] \in {"made", "live"}
  /\ stage' = [stage EXCEPT ![t] = "closed"]
  /\ Enqueue(t)
  /\ UNCHANGED <<heap, object, stack, container, system, victim, userVars>>

(* A step of a thread's life or of its deletion, without the places of the  *)
(* callers of rt_thread_delete.                                             *)
LEMMA ThreadMoves ==
  ASSUME Inv, ThreadNext \/ DeleteNext
  PROVE  \/ \E t \in Thread :
              \/ CreateObject(t) \/ CreateList(t) \/ CreateStack(t)
              \/ UndoList(t) \/ UndoObject(t)
              \/ Startup(t) \/ Closing(t)
         \/ UNCHANGED <<heap, threadVars, systemVars, userVars>>
<1>1. CASE ThreadNext
  BY <1>1 DEF ThreadNext, Exit, Closing
<1>2. CASE DeleteNext
  <2>1. ASSUME NEW d \in Deleter, DeleteRemove(d)
        PROVE  UNCHANGED <<heap, threadVars, systemVars, userVars>>
    <3>1. stage[target[d]] # "closed"
      BY <2>1 DEF DeleteRemove, Deletes, Inv, EndedOnce
    <3> QED
      BY <2>1, <3>1 DEF DeleteRemove, systemVars
  <2>2. ASSUME NEW d \in Deleter, NEW t \in Thread, DeleteTest(d, t)
        PROVE  UNCHANGED <<heap, threadVars, systemVars, userVars>>
    BY <2>2 DEF DeleteTest
  <2>3. ASSUME NEW d \in Deleter, DeleteClose(d)
        PROVE  target[d] \in Thread /\ Closing(target[d])
    <3>1. target[d] \in Thread /\ stage[target[d]] \in {"made", "live"}
      BY <2>3 DEF DeleteClose, Deletes, Inv, EndedOnce, TypeOK
    <3> QED
      BY <2>3, <3>1 DEF DeleteClose, Closing
  <2> QED
    BY <1>2, <2>1, <2>2, <2>3 DEF DeleteNext
<1> QED
  BY <1>1, <1>2

(* Every step of the threads keeps the heap.                                *)
LEMMA ThreadHeap ==
  ASSUME Inv, ThreadNext \/ DeleteNext
  PROVE  HeapInv'
<1>0. CASE UNCHANGED <<heap, threadVars, systemVars, userVars>>
  BY <1>0, InvFacts, NobodyStep DEF threadVars
<1> SUFFICES ASSUME ~UNCHANGED <<heap, threadVars, systemVars, userVars>> PROVE HeapInv'
  BY <1>0
<1> PICK t \in Thread :
         \/ CreateObject(t) \/ CreateList(t) \/ CreateStack(t)
         \/ UndoList(t) \/ UndoObject(t)
         \/ Startup(t) \/ Closing(t)
  BY ThreadMoves
<1>1. CASE CreateObject(t)
  BY <1>1, CreateObjectHeap
<1>2. CASE CreateStack(t)
  BY <1>2, CreateStackHeap
<1>3. CASE UndoObject(t)
  <2>1. /\ object[t] # None
        /\ heap' = Free(heap, object[t]) /\ object' = [object EXCEPT ![t] = None]
        /\ UNCHANGED <<stack, userVars>>
    BY <1>3 DEF UndoObject, Inv, StepsExact
  <2> QED
    BY <2>1, FreeObjectHeap
<1>4. CASE CreateList(t) \/ UndoList(t) \/ Startup(t) \/ Closing(t)
  <2>1. UNCHANGED <<heap, object, stack, userVars>>
    BY <1>4 DEF CreateList, UndoList, Startup, Closing
  <2> QED
    BY <2>1, InvFacts, NobodyStep
<1> QED
  BY <1>1, <1>2, <1>3, <1>4

(* The thread that the system thread takes apart still has what is freed    *)
(* next.                                                                    *)
LEMMA VictimFacts ==
  ASSUME Inv, victim # None
  PROVE  /\ victim \in Thread /\ stage[victim] = "closed" /\ object[victim] # None
         /\ system = "stack" => stack[victim] # None
<1>1. victim \in Thread
  BY DEF Inv, TypeOK
<1>2. stage[victim] = "closed"
  BY <1>1 DEF Inv, NothingLeaked, ClosedQueued
<1>3. object[victim] # None
  BY <1>1, <1>2 DEF Inv, StepsExact
<1>4. system = "stack" => stack[victim] # None
  BY <1>1, <1>2 DEF Inv, NothingLeaked, ObjectsListed
<1> QED
  BY <1>1, <1>2, <1>3, <1>4

(* Every step of the system thread keeps the heap.                          *)
LEMMA SystemHeap ==
  ASSUME Inv, SystemNext
  PROVE  HeapInv'
<1>1. CASE SystemTake \/ SystemDequeue \/ SystemUnlist
  <2>1. UNCHANGED <<heap, object, stack, userVars>>
    BY <1>1 DEF SystemTake, SystemDequeue, SystemUnlist, threadVars
  <2> QED
    BY <2>1, InvFacts, NobodyStep
<1>2. CASE SystemFreeStack
  <2>1. victim \in Thread /\ stack[victim] # None
    BY <1>2, VictimFacts DEF SystemFreeStack, Inv, StepsExact
  <2>2. /\ heap' = Free(heap, stack[victim]) /\ stack' = [stack EXCEPT ![victim] = None]
        /\ UNCHANGED <<object, userVars>>
    BY <1>2 DEF SystemFreeStack
  <2> QED
    BY <2>1, <2>2, FreeStackHeap
<1>3. CASE SystemFreeObject
  <2>1. victim \in Thread /\ object[victim] # None
    BY <1>3, VictimFacts DEF SystemFreeObject, Inv, StepsExact
  <2>2. /\ heap' = Free(heap, object[victim]) /\ object' = [object EXCEPT ![victim] = None]
        /\ UNCHANGED <<stack, userVars>>
    BY <1>3 DEF SystemFreeObject
  <2> QED
    BY <2>1, <2>2, FreeObjectHeap
<1> QED
  BY <1>1, <1>2, <1>3 DEF SystemNext

\* The two places of the user.
B == <<None, "buffer">>
M == <<None, "moved">>

(* The user's two pointers after a step.                                    *)
LEMMA UserOwners ==
  /\ B \in Owner /\ M \in Owner /\ B # M
  /\ Own[B] = buffer /\ Own[M] = moved
  /\ Own'[B] = buffer' /\ Own'[M] = moved'
  /\ Need[B] = IF moved = None THEN length ELSE 0
  /\ Need[M] = length
  /\ Need'[B] = IF moved' = None THEN length' ELSE 0
  /\ Need'[M] = length'
BY OwnValues, OwnValuesNext DEF B, M, Idle

(* What the user needs is a number.                                         *)
LEMMA UserNeed ==
  ASSUME Inv, length' \in Nat, UNCHANGED <<object, stack>>
  PROVE  /\ Need \in [Owner -> Nat] /\ Need' \in [Owner -> Nat]
         /\ \A q \in Owner \ {B, M} : Own'[q] = Own[q] /\ Need'[q] <= Need[q]
<1>1. Need \in [Owner -> Nat] /\ Need' \in [Owner -> Nat]
  BY InvFacts, NeedType
<1>2. \A q \in Owner \ {B, M} : Own'[q] = Own[q] /\ Need'[q] = Need[q]
  BY UserStep DEF B, M
<1> QED
  BY <1>1, <1>2

(* rt_malloc of the user.                                                   *)
LEMMA UserMallocHeap ==
  ASSUME Inv, NEW size \in UserSizes, UserMalloc(size)
  PROVE  HeapInv'
<1> DEFINE x == MallocAt(heap, size)
<1>1. /\ moved = None /\ buffer = None /\ moved' = None
      /\ ~MallocFails(heap, size) /\ heap' = Malloc(heap, size)
      /\ buffer' = x /\ length' = size
      /\ UNCHANGED <<object, stack>> /\ size \in Nat
  BY ReclaimConstants DEF UserMalloc, Idle, threadVars
<1>2. Given(heap, heap', x, size)
  BY <1>1, InvFacts, MallocSound
<1> HIDE DEF x
<1>3. /\ Need \in [Owner -> Nat] /\ Need' \in [Owner -> Nat]
      /\ \A q \in Owner \ {B, M} : Own'[q] = Own[q] /\ Need'[q] <= Need[q]
  BY <1>1, UserNeed
<1>4. /\ B \in Owner /\ Own[B] = None /\ Own'[B] = x /\ Need'[B] = size
      /\ Own[M] = None /\ Own'[M] = None
  BY <1>1, UserOwners
<1>5. \A q \in Owner \ {B} : Own'[q] = Own[q] /\ (Own[q] # None => Need'[q] <= Need[q])
  BY <1>3, <1>4
<1>6. HeapOK(heap) /\ Owned(heap, Own, Need)
  BY InvFacts
<1>7. Owned(heap', Own', Need')
  BY <1>1, <1>2, <1>3, <1>4, <1>5, <1>6, OwnedGiven
<1>8. HeapOK(heap') /\ IsHeap(heap')
  BY <1>1, <1>2, CallsIsHeap DEF Given
<1> QED
  BY <1>7, <1>8, HeapInvNext

(* rt_realloc to nothing.                                                   *)
LEMMA UserFreeHeap ==
  ASSUME Inv, UserFree
  PROVE  HeapInv'
<1>1. /\ moved = None /\ buffer # None /\ moved' = None /\ buffer' = None
      /\ heap' = Free(heap, buffer) /\ length' = 0
      /\ UNCHANGED <<object, stack>>
  BY DEF UserFree, Idle, threadVars
<1>2. /\ Need \in [Owner -> Nat] /\ Need' \in [Owner -> Nat]
      /\ \A q \in Owner \ {B, M} : Own'[q] = Own[q] /\ Need'[q] <= Need[q]
  BY <1>1, UserNeed
<1>3. /\ B \in Owner /\ Own[B] # None /\ Own'[B] = None /\ heap' = Free(heap, Own[B])
      /\ Own[M] = None /\ Own'[M] = None
  BY <1>1, UserOwners
<1>4. \A q \in Owner \ {B} : Own'[q] = Own[q] /\ (Own[q] # None => Need'[q] <= Need[q])
  BY <1>2, <1>3
<1>5. HeapOK(heap) /\ Owned(heap, Own, Need)
  BY InvFacts
<1>6. HeapOK(heap') /\ Owned(heap', Own', Need')
  BY <1>2, <1>3, <1>4, <1>5, OwnedFreed
<1>7. IsHeap(heap')
  BY <1>1, CallsIsHeap
<1> QED
  BY <1>6, <1>7, HeapInvNext

(* rt_realloc that stays or cuts.                                           *)
LEMMA UserReallocInPlaceHeap ==
  ASSUME Inv, NEW size \in UserSizes, UserReallocInPlace(size)
  PROVE  HeapInv'
<1>1. /\ moved = None /\ buffer # None /\ moved' = None /\ buffer' = buffer
      /\ \/ size = Room(heap, buffer) /\ heap' = heap
         \/ Shrinks(heap, buffer, size) /\ heap' = Shrunk(heap, buffer, size)
      /\ length' = size
      /\ UNCHANGED <<object, stack>> /\ size \in Nat
  BY ReclaimConstants DEF UserReallocInPlace, Idle, threadVars
<1>2. /\ Need \in [Owner -> Nat] /\ Need' \in [Owner -> Nat]
      /\ \A q \in Owner \ {B, M} : Own'[q] = Own[q] /\ Need'[q] <= Need[q]
  BY <1>1, UserNeed
<1>3. /\ B \in Owner /\ Own[B] = buffer /\ Own'[B] = buffer /\ Need'[B] = size
      /\ Own[M] = None /\ Own'[M] = None
  BY <1>1, UserOwners
<1>4. \A q \in Owner \ {B} : Own[q] # None => Need'[q] <= Need[q]
  BY <1>2, <1>3
<1>5. HeapOK(heap) /\ Owned(heap, Own, Need) /\ IsHeap(heap)
  BY InvFacts
<1>6. Own' = Own
  BY <1>1 DEF Own
<1>7. buffer \in UsedBlocks(heap.mem)
  BY <1>1, <1>3, <1>5 DEF Owned
<1>8. /\ HeapOK(heap') /\ IsHeap(heap')
      /\ UsedBlocks(heap'.mem) = UsedBlocks(heap.mem)
      /\ \A y \in UsedBlocks(heap.mem) \ {buffer} : heap'.mem[y].next = heap.mem[y].next
      /\ Room(heap', buffer) >= size
  <2>1. CASE size = Room(heap, buffer) /\ heap' = heap
    BY <2>1, <1>1, <1>5
  <2>2. CASE Shrinks(heap, buffer, size) /\ heap' = Shrunk(heap, buffer, size)
    <3>1. /\ HeapOK(heap')
          /\ UsedBlocks(heap'.mem) = UsedBlocks(heap.mem)
          /\ \A y \in UsedBlocks(heap.mem) \ {buffer} : heap'.mem[y].next = heap.mem[y].next
          /\ heap'.mem[buffer].next = buffer + Header + size
      BY <2>2, <1>1, <1>5, <1>7, ShrunkSound
    <3>2. IsHeap(heap')
      BY <2>2, CallsIsHeap
    <3>3. buffer \in Nat
      BY <1>5, <1>7, RoomType
    <3>4. Room(heap', buffer) = size
      BY <3>1, <3>3, <1>1, EndType DEF Room
    <3> QED
      BY <3>1, <3>2, <3>4, <1>1
  <2> QED
    BY <2>1, <2>2, <1>1
<1>9. Owned(heap', Own, Need')
  BY <1>2, <1>3, <1>4, <1>5, <1>8, OwnedKept
<1> QED
  BY <1>6, <1>8, <1>9, HeapInvNext

(* rt_realloc that moves: the new block, which may not be there.            *)
LEMMA UserReallocMoveHeap ==
  ASSUME Inv, NEW size \in UserSizes, UserReallocMove(size)
  PROVE  HeapInv'
<1> DEFINE x == MallocAt(heap, size)
<1>1. /\ moved = None /\ buffer # None /\ buffer' = buffer
      /\ ~MallocFails(heap, size) /\ heap' = Malloc(heap, size)
      /\ moved' = x /\ length' = size
      /\ UNCHANGED <<object, stack>> /\ size \in Nat
  BY ReclaimConstants DEF UserReallocMove, Idle, threadVars
<1>2. Given(heap, heap', x, size)
  BY <1>1, InvFacts, MallocSound
<1> HIDE DEF x
<1>3. /\ Need \in [Owner -> Nat] /\ Need' \in [Owner -> Nat]
      /\ \A q \in Owner \ {B, M} : Own'[q] = Own[q] /\ Need'[q] <= Need[q]
  BY <1>1, UserNeed
<1>4. x # None
  <2>1. x \in UsedBlocks(heap'.mem) /\ HeapOK(heap')
    BY <1>2 DEF Given
  <2> QED
    BY <2>1, RoomType
<1>5. /\ M \in Owner /\ Own[M] = None /\ Own'[M] = x /\ Need'[M] = size
      /\ B \in Owner /\ Own[B] = buffer /\ Own'[B] = buffer /\ Need'[B] = 0
  BY <1>1, <1>4, UserOwners
<1>6. \A q \in Owner \ {M} : Own'[q] = Own[q] /\ (Own[q] # None => Need'[q] <= Need[q])
  <2>1. Need[B] \in Nat /\ Need'[B] <= Need[B]
    BY <1>3, <1>5
  <2> QED
    BY <2>1, <1>3, <1>5
<1>7. HeapOK(heap) /\ Owned(heap, Own, Need)
  BY InvFacts
<1>8. Owned(heap', Own', Need')
  BY <1>1, <1>2, <1>3, <1>5, <1>6, <1>7, OwnedGiven
<1>9. HeapOK(heap') /\ IsHeap(heap')
  BY <1>1, <1>2, CallsIsHeap DEF Given
<1> QED
  BY <1>8, <1>9, HeapInvNext

(* rt_realloc that moves: the old block is freed.                           *)
LEMMA UserReallocDoneHeap ==
  ASSUME Inv, UserReallocDone
  PROVE  HeapInv'
<1>1. /\ moved # None /\ buffer # None /\ moved' = None /\ buffer' = moved
      /\ heap' = Free(heap, buffer) /\ length' = length
      /\ UNCHANGED <<object, stack>> /\ length \in Nat
  BY InvFacts DEF UserReallocDone, Idle, threadVars, Inv, StepsExact
<1>2. /\ Need \in [Owner -> Nat] /\ Need' \in [Owner -> Nat]
      /\ \A q \in Owner \ {B, M} : Own'[q] = Own[q] /\ Need'[q] <= Need[q]
  BY <1>1, UserNeed
<1>3. /\ B \in Owner /\ M \in Owner /\ B # M
      /\ Own[B] = buffer /\ Own'[B] = moved /\ Need'[B] = length
      /\ Own[M] = moved /\ Own'[M] = None /\ Need[M] = length
  BY <1>1, UserOwners
\* Between the two: the old block is free, the new one not handed over.
<1> DEFINE own == [o \in Owner |-> IF o = B THEN None ELSE Own[o]]
<1>4. own[B] = None /\ \A q \in Owner \ {B} : own[q] = Own[q]
  BY <1>3
<1> HIDE DEF own
<1>5. HeapOK(heap) /\ Owned(heap, Own, Need)
  BY InvFacts
<1>6. HeapOK(heap') /\ Owned(heap', own, Need)
  <2>1. \A q \in Owner \ {B} : own[q] = Own[q] /\ (Own[q] # None => Need[q] <= Need[q])
    BY <1>2, <1>4
  <2>2. Own[B] # None /\ heap' = Free(heap, Own[B])
    BY <1>1, <1>3
  <2> QED
    BY <2>1, <2>2, <1>2, <1>3, <1>4, <1>5, OwnedFreed
<1>7. /\ Own'[B] = own[M] /\ Need'[B] <= Need[M]
      /\ \A q \in Owner \ {M, B} : Own'[q] = own[q] /\ (own[q] # None => Need'[q] <= Need[q])
  BY <1>1, <1>2, <1>3, <1>4
<1>8. Owned(heap', Own', Need')
  BY <1>2, <1>3, <1>4, <1>6, <1>7, OwnedHanded
<1>9. IsHeap(heap')
  BY <1>1, CallsIsHeap
<1> QED
  BY <1>6, <1>8, <1>9, HeapInvNext

(* Every step keeps the heap right and everybody's block owned.             *)
LEMMA HeapStep ==
  ASSUME Inv, [Next]_vars
  PROVE  HeapInv'
<1>1. CASE ThreadNext \/ DeleteNext
  BY <1>1, ThreadHeap
<1>2. CASE SystemNext
  BY <1>2, SystemHeap
<1>3. CASE UserNext
  BY <1>3, UserMallocHeap, UserFreeHeap, UserReallocInPlaceHeap, UserReallocMoveHeap,
     UserReallocDoneHeap DEF UserNext
<1>4. CASE UNCHANGED vars
  BY <1>4, InvFacts, NobodyStep DEF vars, threadVars
<1> QED
  BY <1>1, <1>2, <1>3, <1>4 DEF Next

-----------------------------------------------------------------------------
(* What the other conjuncts say of a step. *)

(* The invariant holds at the start.                                        *)
LEMMA InitInv ==
  ASSUME Init, EndsAlone
  PROVE  Inv
<1> DEFINE m == heap.mem
<1>0. /\ heap = NewHeap
      /\ m = [p \in {0, End} |-> IF p = 0 THEN Block(FALSE, End, 0)
                                          ELSE Block(TRUE, End, End)]
      /\ heap.lfree = 0 /\ heap.used = 0
  BY DEF Init, NewHeap
<1>1. End # 0 /\ End >= Header /\ 0 \in 0 .. End /\ End \in 0 .. End
  BY EndType DEF End
<1>2. /\ DOMAIN m = {0, End}
      /\ m[0].used = FALSE /\ m[0].next = End /\ m[0].prev = 0
      /\ m[End].used = TRUE /\ m[End].next = End /\ m[End].prev = End
      /\ m[0] \in Headers /\ m[End] \in Headers
      /\ m = [p \in DOMAIN m |-> m[p]]
  <2>1. DOMAIN m = {0, End} /\ m = [p \in DOMAIN m |-> m[p]]
    BY <1>0
  <2>2. m[0] = Block(FALSE, End, 0) /\ m[End] = Block(TRUE, End, End)
    BY <1>0, <1>1
  <2> HIDE DEF m
  <2>3. m[0] \in Headers /\ m[End] \in Headers
    BY <2>2, <1>1 DEF Headers, Block
  <2>4. /\ m[0].used = FALSE /\ m[0].next = End /\ m[0].prev = 0
        /\ m[End].used = TRUE /\ m[End].next = End /\ m[End].prev = End
    BY <2>2 DEF Block
  <2> QED
    BY <2>1, <2>3, <2>4
<1>3. IsHeap(heap)
  BY <1>0, RecordIsHeap DEF NewHeap
<1>4. heap.lfree = 0 /\ heap.used = 0
  BY <1>0
<1> HIDE DEF m
<1>5. Typed(m)
  BY <1>1, <1>2 DEF Typed
<1>6. Blocks(m) = {0} /\ FreeBlocks(m) = {0} /\ UsedBlocks(m) = {}
  BY <1>1, <1>2 DEF Blocks, FreeBlocks, UsedBlocks
<1>7. Linked(m)
  BY <1>1, <1>2, <1>6, EndType DEF Linked
<1>8. Apart(m)
  BY <1>1, <1>2, <1>6 DEF Apart
<1>9. Min(FreeBlocks(m) \union {End}) = 0
  <2> DEFINE S == FreeBlocks(m) \union {End}
  <2>1. S \in SUBSET Nat /\ 0 \in S /\ \A x \in S : 0 <= x
    BY <1>6, EndType
  <2> HIDE DEF S
  <2> QED
    BY <2>1, MinIs DEF S
<1>10. Cardinality(Covered(m, UsedBlocks(m))) = 0
  <2>1. Covered(m, {}) = {}
    BY DEF Covered
  <2> QED
    BY <2>1, <1>6, FS_EmptySet
<1>11. HeapOK(heap)
  BY <1>4, <1>5, <1>7, <1>8, <1>9, <1>10 DEF HeapOK, Sound, m
<1>12. HeapTyped(heap) /\ Sound(heap)
  BY <1>3, <1>11, HeapType
<1>13. TypeOK
  <2>1. defunct \in Seq(Thread) /\ 1 \in 0 .. SemMax
    BY ReclaimConstants DEF Init
  <2> QED
    BY <2>1, <1>12 DEF Init, TypeOK, HeapTyped, Stages, Steps, Deletion
<1>14. BlocksOwned
  <2>1. ASSUME NEW o \in Owner PROVE Own[o] = None
    BY DEF Own, Owner, Init
  <2> QED
    BY <2>1, <1>6 DEF BlocksOwned, m
<1>15. ObjectsListed
  BY DEF ObjectsListed, Init
<1>16. ClosedQueued
  <2>1. \A t \in Thread : t # None
    BY ReclaimConstants
  <2>2. defunct = <<>> /\ DOMAIN defunct = {} /\ victim = None
    BY DEF Init
  <2>3. \A t \in Thread : stage[t] = "none"
    BY DEF Init
  <2> QED
    BY <2>1, <2>2, <2>3 DEF ClosedQueued
<1>17. StepsExact
  BY DEF StepsExact, Init, Idle
<1>18. EndedOnce
  BY DEF EndedOnce, Init
<1> QED
  BY <1>12, <1>13, <1>14, <1>15, <1>16, <1>17, <1>18 DEF Inv, HeapExact, NothingLeaked

(* An owned block lies before the end of the heap.                          *)
LEMMA GivenOffset ==
  ASSUME Inv, NEW size \in Nat, ~MallocFails(heap, size)
  PROVE  MallocAt(heap, size) \in 0 .. End - 1
<1>1. Given(heap, Malloc(heap, size), MallocAt(heap, size), size)
  BY InvFacts, MallocSound
<1> QED
  BY <1>1, RoomType DEF Given

(* The places of the callers of rt_thread_delete, and that nobody else ends  *)
(* the thread of one.                                                       *)
LEMMA DeletionStep ==
  ASSUME Inv, [Next]_vars
  PROVE  /\ target' \in [Deleter -> Thread \union {None}] /\ step' \in [Deleter -> Deletion]
         /\ EndedOnce'
<1>1. /\ target \in [Deleter -> Thread \union {None}] /\ step \in [Deleter -> Deletion]
      /\ stage \in [Thread -> Stages] /\ None \notin Thread
  BY ReclaimConstants DEF Inv, TypeOK
<1>2. /\ EndsAlone
      /\ \A d \in Deleter : target[d] # None => stage[target[d]] \in {"made", "live"}
      /\ \A c, d \in Deleter : target[c] = target[d] /\ target[c] # None => c = d
  BY DEF Inv, EndedOnce
<1>3. ASSUME /\ target' = target /\ step' = step
             /\ \A d \in Deleter : target[d] # None => stage'[target[d]] \in {"made", "live"}
      PROVE  /\ target' \in [Deleter -> Thread \union {None}]
             /\ step' \in [Deleter -> Deletion]
             /\ EndedOnce'
  BY <1>1, <1>2, <1>3 DEF EndedOnce
<1>4. CASE ThreadNext
  <2>1. PICK t \in Thread :
         \/ CreateObject(t) \/ CreateList(t) \/ CreateStack(t)
         \/ UndoList(t) \/ UndoObject(t)
         \/ Startup(t) \/ Exit(t)
    BY <1>4 DEF ThreadNext
  <2>2. /\ target' = target /\ step' = step
        /\ \A u \in Thread \ {t} : stage'[u] = stage[u]
    BY <2>1, <1>1 DEF CreateObject, CreateList, CreateStack, UndoList, UndoObject, Startup, Exit,
                      deleteVars
  <2>3. stage[t] \in {"made", "live"} => \A d \in Deleter : target[d] # t
    BY <2>1, <1>2 DEF CreateObject, CreateList, CreateStack, UndoList, UndoObject, Startup, Exit,
                      Undisturbed
  <2> QED
    BY <2>2, <2>3, <1>1, <1>2, <1>3
<1>5. CASE SystemNext
  <2>1. target' = target /\ step' = step
    BY <1>5 DEF SystemNext, SystemTake, SystemDequeue, SystemFreeStack, SystemUnlist,
                SystemFreeObject, deleteVars
  <2>2. \A u \in Thread : stage[u] \in {"made", "live"} => stage'[u] = stage[u]
    <3>1. CASE SystemFreeObject
      <4>1. victim \in Thread /\ stage[victim] = "closed"
        BY <3>1, VictimFacts DEF SystemFreeObject, Inv, StepsExact
      <4> QED
        BY <3>1, <4>1, <1>1 DEF SystemFreeObject
    <3>2. CASE ~SystemFreeObject
      BY <1>5, <3>2 DEF SystemNext, SystemTake, SystemDequeue, SystemFreeStack, SystemUnlist,
                        threadVars
    <3> QED
      BY <3>1, <3>2
  <2> QED
    BY <2>1, <2>2, <1>1, <1>2, <1>3
<1>6. CASE UserNext \/ UNCHANGED vars
  <2>1. target' = target /\ step' = step /\ stage' = stage
    BY <1>6 DEF UserNext, UserFree, UserReallocDone, UserMalloc, UserReallocInPlace,
                UserReallocMove, vars, threadVars, deleteVars
  <2> QED
    BY <2>1, <1>2, <1>3
<1>7. CASE DeleteNext
  <2>1. ASSUME NEW d \in Deleter, NEW t \in Thread, DeleteTest(d, t)
        PROVE  /\ target' \in [Deleter -> Thread \union {None}]
               /\ step' \in [Deleter -> Deletion]
               /\ EndedOnce'
    <3>1. /\ target'[d] = t /\ \A c \in Deleter \ {d} : target'[c] = target[c]
          /\ stage[t] \in {"made", "live"} /\ stage' = stage
          /\ \A c \in Deleter : target[c] # t
          /\ target' \in [Deleter -> Thread \union {None}]
          /\ step' \in [Deleter -> Deletion]
      BY <2>1, <1>1, <1>2 DEF DeleteTest, Undisturbed, threadVars, Deletion
    <3> QED
      BY <3>1, <1>2 DEF EndedOnce
  <2>2. ASSUME NEW d \in Deleter, DeleteRemove(d)
        PROVE  /\ target' \in [Deleter -> Thread \union {None}]
               /\ step' \in [Deleter -> Deletion]
               /\ EndedOnce'
    <3>1. target' = target /\ stage' = stage /\ step' \in [Deleter -> Deletion]
      BY <2>2, <1>1 DEF DeleteRemove, threadVars, Deletion
    <3> QED
      BY <3>1, <1>1, <1>2 DEF EndedOnce
  <2>3. ASSUME NEW d \in Deleter, DeleteClose(d)
        PROVE  /\ target' \in [Deleter -> Thread \union {None}]
               /\ step' \in [Deleter -> Deletion]
               /\ EndedOnce'
    <3>1. /\ target'[d] = None /\ \A c \in Deleter \ {d} : target'[c] = target[c]
          /\ \A u \in Thread \ {target[d]} : stage'[u] = stage[u]
          /\ target' \in [Deleter -> Thread \union {None}]
          /\ step' \in [Deleter -> Deletion]
          /\ target[d] # None
      BY <2>3, <1>1 DEF DeleteClose, Deletes, Deletion
    <3>2. \A c \in Deleter \ {d} : target[c] # target[d]
      BY <3>1, <1>2
    <3>3. \A c \in Deleter : target'[c] # None => stage'[target'[c]] \in {"made", "live"}
      BY <3>1, <3>2, <1>1, <1>2
    <3> QED
      BY <3>1, <3>3, <1>2 DEF EndedOnce
  <2> QED
    BY <1>7, <2>1, <2>2, <2>3 DEF DeleteNext
<1> QED
  BY <1>4, <1>5, <1>6, <1>7 DEF Next

(* Every step keeps the types.                                              *)
LEMMA TypeStep ==
  ASSUME Inv, [Next]_vars
  PROVE  TypeOK'
<1> DEFINE Offsets == 0 .. End - 1
           P == Offsets \union {None}
<1>1. /\ stage \in [Thread -> Stages]
      /\ object \in [Thread -> P] /\ stack \in [Thread -> P]
      /\ container \subseteq Thread /\ defunct \in Seq(Thread)
      /\ sem \in 0 .. SemMax /\ system \in Steps
      /\ victim \in Thread \union {None}
      /\ buffer \in P /\ moved \in P
      /\ length \in UserSizes \union {0}
  BY DEF Inv, TypeOK
<1>2. /\ ObjectSize \in Nat /\ StackSize \in Nat /\ UserSizes \subseteq Nat /\ SemMax \in Nat
  BY ReclaimConstants
<1>3. HeapTyped(heap')
  <2>1. HeapOK(heap') /\ IsHeap(heap')
    BY HeapStep DEF HeapInv
  <2> QED
    BY <2>1, HeapType
<1>4. \A size \in Nat : ~MallocFails(heap, size) => MallocAt(heap, size) \in P
  BY GivenOffset
<1> HIDE DEF P
<1>5. None \in P
  BY DEF P
<1>10. /\ target' \in [Deleter -> Thread \union {None}]
       /\ step' \in [Deleter -> Deletion]
  BY DeletionStep
<1> SUFFICES /\ stage' \in [Thread -> Stages]
             /\ object' \in [Thread -> P] /\ stack' \in [Thread -> P]
             /\ container' \subseteq Thread /\ defunct' \in Seq(Thread)
             /\ sem' \in 0 .. SemMax /\ system' \in Steps
             /\ victim' \in Thread \union {None}
             /\ buffer' \in P /\ moved' \in P
             /\ length' \in UserSizes \union {0}
  BY <1>3, <1>10 DEF TypeOK, HeapTyped, P
<1>6. CASE /\ ThreadNext \/ DeleteNext
           /\ ~UNCHANGED <<heap, threadVars, systemVars, userVars>>
  <2> PICK t \in Thread :
         \/ CreateObject(t) \/ CreateList(t) \/ CreateStack(t)
         \/ UndoList(t) \/ UndoObject(t)
         \/ Startup(t) \/ Closing(t)
    BY <1>6, ThreadMoves
  <2>1. CASE CreateObject(t)
    BY <2>1, <1>1, <1>2, <1>4 DEF CreateObject, systemVars, userVars, Stages
  <2>2. CASE CreateStack(t)
    <3>1. CASE MallocFails(heap, StackSize)
      BY <2>2, <3>1, <1>1 DEF CreateStack, systemVars, userVars, Stages
    <3>2. CASE ~MallocFails(heap, StackSize)
      BY <2>2, <3>2, <1>1, <1>2, <1>4 DEF CreateStack, systemVars, userVars, Stages
    <3> QED
      BY <3>1, <3>2
  <2>3. CASE CreateList(t) \/ UndoList(t) \/ Startup(t)
    BY <2>3, <1>1 DEF CreateList, UndoList, Startup, systemVars, userVars, Stages
  <2>4. CASE UndoObject(t)
    BY <2>4, <1>1, <1>5 DEF UndoObject, systemVars, userVars, Stages
  <2>5. CASE Closing(t)
    <3>1. defunct' \in Seq(Thread)
      BY <2>5, <1>1, PrependMembers DEF Closing, Enqueue
    <3>2. sem' \in 0 .. SemMax
      BY <2>5, <1>1, <1>2 DEF Closing, Enqueue
    <3> QED
      BY <2>5, <3>1, <3>2, <1>1 DEF Closing, userVars, Stages
  <2> QED
    BY <2>1, <2>2, <2>3, <2>4, <2>5
<1>7. CASE SystemNext
  <2>1. CASE SystemTake
    BY <2>1, <1>1, <1>2 DEF SystemTake, threadVars, userVars, Steps
  <2>2. CASE SystemDequeue
    <3>1. CASE defunct = <<>>
      BY <2>2, <3>1, <1>1 DEF SystemDequeue, threadVars, userVars, Steps
    <3>2. CASE defunct # <<>>
      <4>1. Tail(defunct) \in Seq(Thread) /\ Head(defunct) \in Thread
        BY <3>2, <1>1
      <4> QED
        BY <2>2, <3>2, <4>1, <1>1 DEF SystemDequeue, threadVars, userVars, Steps
    <3> QED
      BY <3>1, <3>2
  <2>3. CASE SystemFreeStack
    BY <2>3, <1>1, <1>5 DEF SystemFreeStack, userVars, Steps
  <2>4. CASE SystemUnlist
    BY <2>4, <1>1 DEF SystemUnlist, userVars, Steps
  <2>5. CASE SystemFreeObject
    BY <2>5, <1>1, <1>5 DEF SystemFreeObject, userVars, Steps, Stages
  <2> QED
    BY <1>7, <2>1, <2>2, <2>3, <2>4, <2>5 DEF SystemNext
<1>8. CASE UserNext
  <2>1. CASE UserFree
    BY <2>1, <1>1, <1>5 DEF UserFree, threadVars, systemVars
  <2>2. CASE UserReallocDone
    BY <2>2, <1>1, <1>5 DEF UserReallocDone, threadVars, systemVars
  <2>3. ASSUME NEW size \in UserSizes, UserMalloc(size) PROVE TypeOK'
    BY <2>3, <1>1, <1>2, <1>3, <1>10, <1>4 DEF UserMalloc, threadVars, systemVars, TypeOK, HeapTyped, P
  <2>4. ASSUME NEW size \in UserSizes, UserReallocInPlace(size) PROVE TypeOK'
    BY <2>4, <1>1, <1>3, <1>10 DEF UserReallocInPlace, threadVars, systemVars, TypeOK, HeapTyped, P
  <2>5. ASSUME NEW size \in UserSizes, UserReallocMove(size) PROVE TypeOK'
    BY <2>5, <1>1, <1>2, <1>3, <1>10, <1>4 DEF UserReallocMove, threadVars, systemVars, TypeOK, HeapTyped, P
  <2>6. CASE TypeOK'
    BY <2>6 DEF TypeOK, P
  <2> QED
    BY <1>8, <2>1, <2>2, <2>3, <2>4, <2>5, <2>6 DEF UserNext
<1>9. CASE UNCHANGED <<heap, threadVars, systemVars, userVars>>
  BY <1>9, <1>1 DEF threadVars, systemVars, userVars
<1> QED
  BY <1>6, <1>7, <1>8, <1>9 DEF Next, vars

(* The container, the stacks and the places where everybody stands.         *)
LEMMA ListStep ==
  ASSUME Inv, [Next]_vars
  PROVE  ObjectsListed' /\ StepsExact'
<1>1. /\ stage \in [Thread -> Stages]
      /\ object \in [Thread -> 0 .. End - 1 \union {None}]
      /\ stack \in [Thread -> 0 .. End - 1 \union {None}]
      /\ container \subseteq Thread
      /\ victim \in Thread \union {None}
      /\ \A x \in Nat : x # None
  BY ReclaimConstants DEF Inv, TypeOK
<1>2. /\ \A t \in Thread :
           /\ t \in container <=> \/ stage[t] \in {"listed", "undo", "made", "live"}
                                  \/ stage[t] = "closed" /\ ~(t = victim /\ system = "object")
           /\ t \in container => object[t] # None
           /\ stack[t] # None <=> \/ stage[t] \in {"made", "live"}
                                  \/ stage[t] = "closed" /\ ~(t = victim /\ system # "stack")
      /\ victim # None <=> system \in {"stack", "unlist", "object"}
      /\ \A t \in Thread : object[t] # None <=> stage[t] # "none"
      /\ Idle \/ buffer # None
  BY DEF Inv, NothingLeaked, ObjectsListed, StepsExact
<1>3. \A t \in Thread : t = victim => stage[t] = "closed"
  BY VictimFacts, ReclaimConstants
<1>4. \A size \in Nat : ~MallocFails(heap, size) => MallocAt(heap, size) \in Nat
  BY GivenOffset
<1>5. ObjectSize \in Nat /\ StackSize \in Nat /\ UserSizes \subseteq Nat /\ None \notin Thread
  BY ReclaimConstants
<1>6. CASE /\ ThreadNext \/ DeleteNext
           /\ ~UNCHANGED <<heap, threadVars, systemVars, userVars>>
  <2> PICK t \in Thread :
         \/ CreateObject(t) \/ CreateList(t) \/ CreateStack(t)
         \/ UndoList(t) \/ UndoObject(t)
         \/ Startup(t) \/ Closing(t)
    BY <1>6, ThreadMoves
  <2>1. /\ system' = system /\ victim' = victim /\ buffer' = buffer /\ moved' = moved
        /\ stage' \in [Thread -> {stage[u] : u \in Thread} \union {stage'[t]}]
        /\ \A u \in Thread \ {t} : /\ stage'[u] = stage[u] /\ object'[u] = object[u]
                                   /\ stack'[u] = stack[u]
                                   /\ u \in container' <=> u \in container
    BY <1>1 DEF CreateObject, CreateList, CreateStack, UndoList, UndoObject, Startup, Closing,
                systemVars, userVars
  <2>2. t # victim
    BY <1>3 DEF CreateObject, CreateList, CreateStack, UndoList, UndoObject, Startup, Closing
  <2>3. /\ t \in container' <=> stage'[t] \in {"listed", "undo", "made", "live", "closed"}
        /\ t \in container' => object'[t] # None
        /\ stack'[t] # None <=> stage'[t] \in {"made", "live", "closed"}
        /\ object'[t] # None <=> stage'[t] # "none"
    <3>1. CASE CreateObject(t)
      <4>1. object'[t] # None /\ stage[t] = "none" /\ stage'[t] = "allocated"
        BY <3>1, <1>1, <1>4, <1>5 DEF CreateObject
      <4>2. container' = container /\ stack' = stack
        BY <3>1 DEF CreateObject
      <4> QED
        BY <4>1, <4>2, <1>2
    <3>2. CASE CreateStack(t)
      <4>1. container' = container /\ object' = object /\ stage[t] = "listed"
        BY <3>2 DEF CreateStack
      <4>2. CASE MallocFails(heap, StackSize)
        <5>1. stage'[t] = "undo" /\ stack' = stack
          BY <3>2, <4>2, <1>1 DEF CreateStack
        <5> QED
          BY <4>1, <5>1, <1>2
      <4>3. CASE ~MallocFails(heap, StackSize)
        <5>1. stage'[t] = "made" /\ stack'[t] # None
          BY <3>2, <4>3, <1>1, <1>4, <1>5 DEF CreateStack
        <5> QED
          BY <4>1, <5>1, <1>2
      <4> QED
        BY <4>2, <4>3
    <3>3. CASE CreateList(t)
      <4>1. stage[t] = "allocated" /\ stage'[t] = "listed" /\ t \in container'
            /\ object' = object /\ stack' = stack
        BY <3>3, <1>1 DEF CreateList
      <4> QED
        BY <4>1, <1>2
    <3>4. CASE UndoList(t)
      <4>1. stage[t] = "undo" /\ stage'[t] = "unlisted" /\ t \notin container'
            /\ object' = object /\ stack' = stack
        BY <3>4, <1>1 DEF UndoList
      <4> QED
        BY <4>1, <1>2
    <3>5. CASE UndoObject(t)
      <4>1. stage[t] = "unlisted" /\ stage'[t] = "none" /\ container' = container
            /\ object'[t] = None /\ stack' = stack
        BY <3>5, <1>1 DEF UndoObject
      <4> QED
        BY <4>1, <1>2
    <3>6. CASE Startup(t)
      <4>1. stage[t] = "made" /\ stage'[t] = "live" /\ container' = container
            /\ object' = object /\ stack' = stack
        BY <3>6, <1>1 DEF Startup
      <4> QED
        BY <4>1, <1>2
    <3>7. CASE Closing(t)
      <4>1. stage[t] \in {"made", "live"} /\ stage'[t] = "closed" /\ container' = container
            /\ object' = object /\ stack' = stack
        BY <3>7, <1>1 DEF Closing
      <4> QED
        BY <4>1, <1>2
    <3> QED
      BY <3>1, <3>2, <3>3, <3>4, <3>5, <3>6, <3>7
  <2>4. ASSUME NEW u \in Thread
        PROVE  /\ u \in container' <=> \/ stage'[u] \in {"listed", "undo", "made", "live"}
                                       \/ stage'[u] = "closed" /\ ~(u = victim' /\ system' = "object")
               /\ u \in container' => object'[u] # None
               /\ stack'[u] # None <=> \/ stage'[u] \in {"made", "live"}
                                       \/ stage'[u] = "closed" /\ ~(u = victim' /\ system' # "stack")
               /\ object'[u] # None <=> stage'[u] # "none"
    <3>1. CASE u = t
      BY <3>1, <2>1, <2>2, <2>3
    <3>2. CASE u # t
      BY <3>2, <2>1, <1>2
    <3> QED
      BY <3>1, <3>2
  <2>5. ObjectsListed'
    BY <2>4 DEF ObjectsListed
  <2>6. StepsExact'
    BY <2>1, <2>4, <1>2 DEF StepsExact, Idle
  <2> QED
    BY <2>5, <2>6
<1>7. CASE SystemNext
  <2>1. /\ buffer' = buffer /\ moved' = moved
    BY <1>7 DEF SystemNext, SystemTake, SystemDequeue, SystemFreeStack, SystemUnlist,
                SystemFreeObject, userVars
  <2>2. CASE SystemTake
    BY <2>1, <2>2, <1>2 DEF SystemTake, threadVars, ObjectsListed, StepsExact, Idle
  <2>3. CASE SystemDequeue
    <3>1. CASE defunct = <<>>
      BY <2>1, <2>3, <3>1, <1>2 DEF SystemDequeue, threadVars, ObjectsListed, StepsExact, Idle
    <3>2. CASE defunct # <<>>
      <4>1. Head(defunct) \in Thread
        BY <3>2 DEF Inv, TypeOK
      <4>2. victim = None /\ system = "drain" /\ victim' # None /\ system' = "stack"
        BY <2>3, <3>2, <4>1, <1>2, <1>5 DEF SystemDequeue
      <4>3. /\ stage' = stage /\ object' = object /\ stack' = stack /\ container' = container
        BY <2>3 DEF SystemDequeue, threadVars
      <4>4. ObjectsListed'
        BY <4>2, <4>3, <1>2, <1>5 DEF ObjectsListed
      <4>5. StepsExact'
        BY <2>1, <4>2, <4>3, <1>2 DEF StepsExact, Idle
      <4> QED
        BY <4>4, <4>5
    <3> QED
      BY <3>1, <3>2
  <2>4. CASE SystemFreeStack \/ SystemUnlist \/ SystemFreeObject
    <3>1. victim \in Thread /\ victim # None /\ stage[victim] = "closed"
      BY <2>4, <1>2, VictimFacts DEF SystemFreeStack, SystemUnlist, SystemFreeObject
    <3>2. CASE SystemFreeStack
      <4>1. /\ stack'[victim] = None /\ \A u \in Thread \ {victim} : stack'[u] = stack[u]
            /\ system = "stack" /\ system' = "unlist"
            /\ stage' = stage /\ object' = object /\ container' = container /\ victim' = victim
        BY <3>1, <3>2, <1>1 DEF SystemFreeStack
      <4>2. ObjectsListed'
        BY <4>1, <3>1, <1>2 DEF ObjectsListed
      <4> QED
        BY <2>1, <4>1, <4>2, <3>1, <1>2 DEF StepsExact, Idle
    <3>3. CASE SystemUnlist
      <4>1. /\ container' = container \ {victim}
            /\ system = "unlist" /\ system' = "object"
            /\ stage' = stage /\ object' = object /\ stack' = stack /\ victim' = victim
        BY <3>3 DEF SystemUnlist
      <4>2. ObjectsListed'
        BY <4>1, <3>1, <1>2 DEF ObjectsListed
      <4> QED
        BY <2>1, <4>1, <4>2, <3>1, <1>2 DEF StepsExact, Idle
    <3>4. CASE SystemFreeObject
      <4>1. /\ object'[victim] = None /\ \A u \in Thread \ {victim} : object'[u] = object[u]
            /\ stage'[victim] = "none" /\ \A u \in Thread \ {victim} : stage'[u] = stage[u]
            /\ system = "object" /\ system' = "drain"
            /\ stack' = stack /\ container' = container /\ victim' = None
        BY <3>1, <3>4, <1>1 DEF SystemFreeObject
      <4>2. ObjectsListed'
        BY <4>1, <3>1, <1>2, <1>5 DEF ObjectsListed
      <4> QED
        BY <2>1, <4>1, <4>2, <3>1, <1>2 DEF StepsExact, Idle
    <3> QED
      BY <2>4, <3>2, <3>3, <3>4
  <2> QED
    BY <1>7, <2>2, <2>3, <2>4 DEF SystemNext
<1>8. CASE UserNext
  <2>1. /\ stage' = stage /\ object' = object /\ stack' = stack /\ container' = container
        /\ system' = system /\ victim' = victim
    BY <1>8 DEF UserNext, UserFree, UserReallocDone, UserMalloc, UserReallocInPlace,
                UserReallocMove, threadVars, systemVars
  <2>2. moved' = None \/ buffer' # None
    BY <1>8 DEF UserNext, UserFree, UserReallocDone, UserMalloc, UserReallocInPlace,
                UserReallocMove, Idle
  <2>3. ObjectsListed'
    BY <2>1, <1>2 DEF ObjectsListed
  <2> QED
    BY <2>1, <2>2, <2>3, <1>2 DEF StepsExact, Idle
<1>9. CASE UNCHANGED <<heap, threadVars, systemVars, userVars>>
  BY <1>9, <1>2 DEF threadVars, systemVars, userVars, ObjectsListed, StepsExact, Idle
<1> QED
  BY <1>6, <1>7, <1>8, <1>9 DEF Next, vars

\* ClosedQueued, with the defunct list's threads as a set.
QueueExact(s, v) ==
  /\ Distinct(s) /\ v \notin Members(s)
  /\ \A t \in Thread : stage[t] = "closed" <=> t = v \/ t \in Members(s)

(* ClosedQueued in the words of sequences without repetition.               *)
LEMMA QueueForms ==
  /\ ClosedQueued <=> /\ QueueExact(defunct, victim)
                      /\ defunct # <<>> /\ system = "take" => sem > 0
  /\ ClosedQueued' <=> /\ Distinct(defunct') /\ victim' \notin Members(defunct')
                       /\ \A t \in Thread : stage'[t] = "closed" <=>
                            t = victim' \/ t \in Members(defunct')
                       /\ defunct' # <<>> /\ system' = "take" => sem' > 0
BY DEF ClosedQueued, QueueExact, Distinct, Members

(* Every step keeps the defunct list, system_sem and the closed threads in  *)
(* agreement.                                                               *)
LEMMA QueueStep ==
  ASSUME Inv, [Next]_vars
  PROVE  ClosedQueued'
<1>1. /\ stage \in [Thread -> Stages] /\ defunct \in Seq(Thread)
      /\ sem \in 0 .. SemMax /\ SemMax \in Nat \ {0} /\ None \notin Thread
  BY ReclaimConstants DEF Inv, TypeOK
<1>2. /\ Distinct(defunct) /\ victim \notin Members(defunct)
      /\ \A t \in Thread : stage[t] = "closed" <=> t = victim \/ t \in Members(defunct)
      /\ defunct # <<>> /\ system = "take" => sem > 0
  BY QueueForms DEF Inv, NothingLeaked, QueueExact
<1>3. victim # None <=> system \in {"stack", "unlist", "object"}
  BY DEF Inv, StepsExact
<1> SUFFICES /\ Distinct(defunct') /\ victim' \notin Members(defunct')
             /\ \A t \in Thread : stage'[t] = "closed" <=>
                  t = victim' \/ t \in Members(defunct')
             /\ defunct' # <<>> /\ system' = "take" => sem' > 0
  BY QueueForms
<1>4. CASE /\ ThreadNext \/ DeleteNext
           /\ ~UNCHANGED <<heap, threadVars, systemVars, userVars>>
  <2> PICK t \in Thread :
         \/ CreateObject(t) \/ CreateList(t) \/ CreateStack(t)
         \/ UndoList(t) \/ UndoObject(t)
         \/ Startup(t) \/ Closing(t)
    BY <1>4, ThreadMoves
  <2>1. CASE Closing(t)
    <3>1. /\ defunct' = <<t>> \o defunct
          /\ sem' = IF sem < SemMax THEN sem + 1 ELSE sem
          /\ stage[t] \in {"made", "live"}
          /\ stage'[t] = "closed" /\ \A u \in Thread \ {t} : stage'[u] = stage[u]
          /\ system' = system /\ victim' = victim
      BY <2>1, <1>1 DEF Closing, Enqueue
    <3>2. t \notin Members(defunct) /\ t # victim
      BY <3>1, <1>2
    <3>3. Members(defunct') = Members(defunct) \union {t} /\ Distinct(defunct')
      BY <3>1, <3>2, <1>1, <1>2, PrependMembers
    <3>4. sem' > 0
      BY <3>1, <1>1
    <3> QED
      BY <3>1, <3>2, <3>3, <3>4, <1>2
  <2>2. CASE ~Closing(t)
    <3>1. /\ defunct' = defunct /\ sem' = sem /\ system' = system /\ victim' = victim
          /\ stage[t] # "closed" /\ stage'[t] # "closed"
          /\ \A u \in Thread \ {t} : stage'[u] = stage[u]
      BY <2>2, <1>1 DEF CreateObject, CreateList, CreateStack, UndoList, UndoObject, Startup,
                        systemVars
    <3> QED
      BY <3>1, <1>2
  <2> QED
    BY <2>1, <2>2
<1>5. CASE SystemNext
  <2>1. CASE SystemTake
    BY <2>1, <1>2 DEF SystemTake, threadVars
  <2>2. CASE SystemDequeue
    <3>1. CASE defunct = <<>>
      BY <2>2, <3>1, <1>2 DEF SystemDequeue, threadVars
    <3>2. CASE defunct # <<>>
      <4>1. /\ victim = None /\ victim' = Head(defunct) /\ defunct' = Tail(defunct)
            /\ system' = "stack" /\ stage' = stage
        BY <2>2, <3>2, <1>3 DEF SystemDequeue, threadVars
      <4>2. /\ Members(Tail(defunct)) = Members(defunct) \ {Head(defunct)}
            /\ Head(defunct) \in Members(defunct) /\ Distinct(Tail(defunct))
        BY <3>2, <1>1, <1>2, TailMembers
      <4> QED
        BY <4>1, <4>2, <1>1, <1>2
    <3> QED
      BY <3>1, <3>2
  <2>3. CASE SystemFreeStack \/ SystemUnlist
    BY <2>3, <1>2 DEF SystemFreeStack, SystemUnlist
  <2>4. CASE SystemFreeObject
    <3>1. victim \in Thread /\ victim # None
      BY <2>4, <1>3, VictimFacts DEF SystemFreeObject
    <3>2. /\ stage'[victim] = "none" /\ \A u \in Thread \ {victim} : stage'[u] = stage[u]
          /\ defunct' = defunct /\ victim' = None /\ system' = "drain"
      BY <2>4, <3>1, <1>1 DEF SystemFreeObject
    <3>3. None \notin Members(defunct)
      BY <1>1 DEF Members
    <3> QED
      BY <3>1, <3>2, <3>3, <1>1, <1>2
  <2> QED
    BY <1>5, <2>1, <2>2, <2>3, <2>4 DEF SystemNext
<1>6. CASE UserNext \/ UNCHANGED <<heap, threadVars, systemVars, userVars>>
  <2>1. /\ stage' = stage /\ defunct' = defunct /\ sem' = sem
        /\ system' = system /\ victim' = victim
    BY <1>6 DEF UserNext, UserFree, UserReallocDone, UserMalloc, UserReallocInPlace,
                UserReallocMove, threadVars, systemVars
  <2> QED
    BY <2>1, <1>2
<1> QED
  BY <1>4, <1>5, <1>6 DEF Next, vars

-----------------------------------------------------------------------------
(* The theorems. *)

(* The invariant is inductive.                                              *)
LEMMA InvStep == Inv /\ [Next]_vars => Inv'
<1> SUFFICES ASSUME Inv, [Next]_vars PROVE Inv'
  OBVIOUS
<1>1. TypeOK' /\ ObjectsListed' /\ StepsExact' /\ ClosedQueued' /\ HeapInv' /\ EndedOnce'
  BY TypeStep, ListStep, QueueStep, HeapStep, DeletionStep
<1>2. HeapExact'
  BY <1>1, HeapType DEF HeapInv, HeapExact
<1> QED
  BY <1>1, <1>2 DEF Inv, NothingLeaked, HeapInv

(* The invariant holds in every reachable state, when every thread is ended *)
(* by one caller alone.                                                     *)
LEMMA InvAlways ==
  ASSUME EndsAlone = TRUE
  PROVE  Spec => []Inv
<1>1. Init => Inv
  BY InitInv
<1> QED
  BY <1>1, InvStep, PTL DEF Spec

(* Type correctness of heap, threads, user and system thread together, for  *)
(* any threads, sizes and requests.                                         *)
THEOREM ReclaimTypes ==
  ASSUME EndsAlone = TRUE
  PROVE  Spec => []TypeOK
<1>1. Inv => TypeOK
  BY DEF Inv
<1> QED
  BY <1>1, InvAlways, PTL

(* rt_malloc, rt_realloc and rt_free keep the list of blocks, lfree and     *)
(* used_mem right in every order, for every size of the heap and of the     *)
(* requests: the blocks tile the heap and are linked both ways, no two free *)
(* ones touch, lfree is the first free one, and used_mem counts exactly     *)
(* what the used ones cover.                                                *)
THEOREM HeapAlwaysExact ==
  ASSUME EndsAlone = TRUE
  PROVE  Spec => []HeapExact
<1>1. Inv => HeapExact
  BY DEF Inv
<1> QED
  BY <1>1, InvAlways, PTL

(* For any number of threads and of callers of rt_thread_delete, while no   *)
(* two calls end the same thread: every block in use has one owner and      *)
(* every owner the room it asked for, the container holds exactly the       *)
(* objects that exist, and a closed thread is on the defunct list once, or  *)
(* with the system thread, and announced.  Between the test of              *)
(* rt_thread_delete and its last section everybody else goes on.            *)
THEOREM NothingEverLeaks ==
  ASSUME EndsAlone = TRUE
  PROVE  Spec => []NothingLeaked
<1>1. Inv => NothingLeaked
  BY DEF Inv
<1> QED
  BY <1>1, InvAlways, PTL
=============================================================================
