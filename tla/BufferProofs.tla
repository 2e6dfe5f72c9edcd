---------------------------- MODULE BufferProofs ----------------------------
(***************************************************************************)
(* Theorems about the objects of Ipc that hold things: the message queue    *)
(* and the memory pool, then the mailbox, then all of them together.  No    *)
(* cell and no block is lost or in two places; the queue, and the mailbox   *)
(* where a thread behind its wait is alone (MbRaces = FALSE), implement a   *)
(* bounded channel; and no thread sleeps for what is there with nobody on   *)
(* the way to it.  For any threads, handlers, cells, contents and sizes.    *)
(***************************************************************************)
EXTENDS IpcProofs, FunctionTheorems

-----------------------------------------------------------------------------
(* Cells that are linked one behind the other *)

\* From the cell first on, the links next go through the cells of s.
Linked(next, first, s) ==
  /\ s \in Seq(Cell) /\ Distinct(s)
  /\ first = IF s = <<>> THEN None ELSE s[1]
  /\ \A i \in 1 .. Len(s) : next[s[i]] = IF i = Len(s) THEN None ELSE s[i + 1]

(* The function by which Chain follows the links.                           *)
LEMMA ChainSteps ==
  ASSUME NEW next \in [Cell -> Cell \union {None}], NEW first \in Cell \union {None}
  PROVE  \E nth :
           /\ nth[0] = first
           /\ \A i \in 1 .. Cardinality(Cell) :
                nth[i] = IF nth[i - 1] = None THEN None ELSE next[nth[i - 1]]
           /\ Chain(next, first) =
                [i \in 1 .. Cardinality({j \in 0 .. Cardinality(Cell) : nth[j] # None})
                   |-> nth[i - 1]]
<1> DEFINE N == Cardinality(Cell)
           D(f) == [i \in 0 .. N |->
                      IF i = 0 THEN first
                      ELSE IF f[i - 1] = None THEN None ELSE next[f[i - 1]]]
           S == Cell \union {None}
           F == [i \in 1 .. N |-> [m \in S |-> IF m = None THEN None ELSE next[m]]]
           h == CHOOSE f : f = D(f)
<1>1. N \in Nat
  BY MessageQueueConstants, FS_CardinalityType
<1>2. F \in [1 .. N -> [S -> S]] /\ first \in S
  BY MessageQueueConstants
<1>3. PICK f \in [0 .. N -> S] : Iterates(f, N, first, F)
  <2> HIDE DEF F, N, S
  <2> QED
    BY <1>1, <1>2, IteratesExist
<1> HIDE DEF N
<1>4. ASSUME NEW i \in 0 .. N PROVE f[i] = D(f)[i]
  <2>1. CASE i = 0
    BY <1>3, <2>1 DEF Iterates
  <2>2. CASE i # 0
    <3>1. i \in 1 .. N /\ f[i - 1] \in S
      BY <1>1, <2>2
    <3>2. f[i] = F[i][f[i - 1]]
      BY <1>3, <3>1 DEF Iterates
    <3> QED
      BY <2>2, <3>1, <3>2
  <2> QED
    BY <2>1, <2>2
<1>5. f = D(f)
  BY <1>4
<1>6. h = D(h)
  BY <1>5, Zenon
<1>7. Chain(next, first) =
        [i \in 1 .. Cardinality({j \in 0 .. N : h[j] # None}) |-> h[i - 1]]
  BY DEF Chain, N
<1> HIDE DEF h
<1>8. ASSUME NEW i \in 0 .. N
      PROVE  h[i] = IF i = 0 THEN first
                    ELSE IF h[i - 1] = None THEN None ELSE next[h[i - 1]]
  BY <1>6
<1>9. h[0] = first
  <2>1. 0 \in 0 .. N
    BY <1>1
  <2> QED
    BY <1>8, <2>1
<1>10. ASSUME NEW i \in 1 .. N
       PROVE  h[i] = IF h[i - 1] = None THEN None ELSE next[h[i - 1]]
  <2>1. i \in 0 .. N /\ i # 0
    BY <1>1
  <2> QED
    BY <1>8, <2>1
<1> QED
  BY <1>7, <1>9, <1>10 DEF N

(* Chain finds the cells that are linked.                                   *)
LEMMA ChainIsLinked ==
  ASSUME NEW next \in [Cell -> Cell \union {None}], NEW first, NEW s,
         Linked(next, first, s)
  PROVE  Chain(next, first) = s
<1> DEFINE N == Cardinality(Cell)
           L == Len(s)
<1>1. /\ N \in Nat /\ L \in Nat /\ L <= N
      /\ \A i \in 1 .. L : s[i] \in Cell
      /\ None \notin Cell
      /\ s = [i \in 1 .. L |-> s[i]]
  BY MessageQueueConstants, FS_CardinalityType, DistinctLength DEF Linked
<1>2. first \in Cell \union {None}
  BY DEF Linked
<1>3. PICK nth : /\ nth[0] = first
                 /\ \A i \in 1 .. N :
                      nth[i] = IF nth[i - 1] = None THEN None ELSE next[nth[i - 1]]
                 /\ Chain(next, first) =
                      [i \in 1 .. Cardinality({j \in 0 .. N : nth[j] # None}) |-> nth[i - 1]]
  BY <1>2, ChainSteps
<1>4. /\ nth[0] = IF L = 0 THEN None ELSE s[1]
      /\ \A i \in 1 .. L : next[s[i]] = IF i = L THEN None ELSE s[i + 1]
  BY <1>3 DEF Linked
<1> HIDE DEF N, L
<1> DEFINE P == {k \in 0 .. N : nth[k] = IF k < L THEN s[k + 1] ELSE None}
<1>5. 0 \in P
  BY <1>1, <1>4
<1>6. ASSUME NEW k \in 1 .. N, k - 1 \in P PROVE k \in P
  <2>1. nth[k - 1] = IF k - 1 < L THEN s[k] ELSE None
    BY <1>1, <1>6
  <2>2. CASE k <= L
    <3>1. nth[k - 1] = s[k] /\ s[k] # None
      BY <1>1, <2>1, <2>2
    <3>2. nth[k] = next[s[k]]
      BY <1>3, <3>1
    <3> QED
      BY <1>1, <1>4, <2>2, <3>2
  <2>3. CASE ~(k <= L)
    <3>1. nth[k - 1] = None
      BY <1>1, <2>1, <2>3
    <3> QED
      BY <1>1, <1>3, <2>3, <3>1
  <2> QED
    BY <2>2, <2>3
<1> HIDE DEF P
<1>7. \A k \in 0 .. N : k \in P
  BY <1>1, <1>5, <1>6, PlaceInduction
<1> USE DEF P
<1>8. \A k \in 0 .. N : nth[k] # None <=> k < L
  BY <1>1, <1>7
<1>9. {j \in 0 .. N : nth[j] # None} = 0 .. L - 1
  BY <1>1, <1>8
<1>10. Cardinality(0 .. L - 1) = L
  <2> DEFINE K == L - 1
  <2>1. 0 \in Int /\ K \in Int
    BY <1>1
  <2> HIDE DEF K
  <2>2. Cardinality(0 .. K) = IF 0 > K THEN 0 ELSE K - 0 + 1
    BY <2>1, FS_Interval
  <2> QED
    BY <1>1, <2>2 DEF K
<1>11. ASSUME NEW i \in 1 .. L PROVE nth[i - 1] = s[i]
  <2>1. i - 1 \in 0 .. N /\ i - 1 < L /\ (i - 1) + 1 = i
    BY <1>1
  <2> QED
    BY <1>7, <2>1
<1>12. Chain(next, first) = [i \in 1 .. L |-> nth[i - 1]]
  BY <1>3, <1>9, <1>10
<1> QED
  BY <1>1, <1>11, <1>12

(* Links elsewhere may change.                                              *)
LEMMA LinkedElsewhere ==
  ASSUME NEW next, NEW first, NEW s, Linked(next, first, s),
         NEW other, \A m \in Members(s) : other[m] = next[m]
  PROVE  Linked(other, first, s)
BY DEF Linked, Members

(* The first cell is taken off.                                             *)
LEMMA LinkedTail ==
  ASSUME NEW next, NEW first, NEW s, Linked(next, first, s), s # <<>>
  PROVE  /\ Linked(next, next[first], Tail(s))
         /\ first \in Cell /\ first = Head(s) /\ first \in Members(s)
         /\ Members(Tail(s)) = Members(s) \ {first}
<1> DEFINE r == Tail(s)
<1>1. s \in Seq(Cell) /\ Distinct(s) /\ Len(s) \in Nat /\ Len(s) > 0
  BY DEF Linked
<1>2. /\ r \in Seq(Cell) /\ Distinct(r) /\ Head(s) \in Members(s)
      /\ Members(r) = Members(s) \ {Head(s)}
      /\ Len(r) = Len(s) - 1
      /\ \A i \in 1 .. Len(r) : r[i] = s[i + 1]
  BY <1>1, TailMembers
<1>3. first = s[1] /\ first = Head(s) /\ first \in Cell
  BY <1>1 DEF Linked
<1>4. next[first] = IF r = <<>> THEN None ELSE r[1]
  <2> HIDE DEF r
  <2>1. r = <<>> <=> Len(s) = 1
    BY <1>1, <1>2
  <2>2. next[s[1]] = IF Len(s) = 1 THEN None ELSE s[2]
    <3>1. 1 \in 1 .. Len(s)
      BY <1>1
    <3>2. next[s[1]] = IF 1 = Len(s) THEN None ELSE s[1 + 1]
      BY <3>1 DEF Linked
    <3> QED
      BY <3>2
  <2> QED
    BY <1>1, <1>2, <1>3, <2>1, <2>2
<1> HIDE DEF r
<1>5. \A i \in 1 .. Len(r) : next[r[i]] = IF i = Len(r) THEN None ELSE r[i + 1]
  <2>1. ASSUME NEW i \in 1 .. Len(r)
        PROVE  next[r[i]] = IF i = Len(r) THEN None ELSE r[i + 1]
    <3>1. i + 1 \in 1 .. Len(s) /\ (i + 1 = Len(s) <=> i = Len(r))
      BY <1>1, <1>2
    <3>2. next[s[i + 1]] = IF i + 1 = Len(s) THEN None ELSE s[i + 2]
      BY <1>1, <3>1 DEF Linked
    <3> QED
      BY <1>1, <1>2, <3>1, <3>2
  <2> QED
    BY <2>1
<1> QED
  BY <1>2, <1>3, <1>4, <1>5 DEF Linked, r

(* A cell is put in front.                                                  *)
LEMMA LinkedFront ==
  ASSUME NEW next, NEW first, NEW s,
         Linked(next, first, s), NEW m \in Cell, m \notin Members(s),
         NEW other, \A x \in Cell : other[x] = IF x = m THEN first ELSE next[x]
  PROVE  /\ Linked(other, m, <<m>> \o s)
         /\ Members(<<m>> \o s) = Members(s) \union {m}
<1> DEFINE r == <<m>> \o s
<1>1. s \in Seq(Cell) /\ Distinct(s) /\ Len(s) \in Nat
  BY DEF Linked
<1>2. /\ r \in Seq(Cell) /\ Len(r) = Len(s) + 1 /\ r # <<>>
      /\ r[1] = m /\ \A i \in 1 .. Len(s) : r[i + 1] = s[i]
      /\ Members(r) = Members(s) \union {m} /\ Distinct(r)
  BY <1>1, PrependMembers
<1> HIDE DEF r
<1>3. \A i \in 1 .. Len(s) : s[i] \in Cell /\ s[i] # m
  BY <1>1 DEF Members
<1>4. ASSUME NEW i \in 1 .. Len(r)
      PROVE  other[r[i]] = IF i = Len(r) THEN None ELSE r[i + 1]
  <2>1. CASE i = 1
    <3>1. other[r[1]] = first
      BY <1>2
    <3>2. first = IF Len(s) = 0 THEN None ELSE s[1]
      BY <1>1 DEF Linked
    <3> QED
      BY <1>1, <1>2, <2>1, <3>1, <3>2
  <2>2. CASE i # 1
    <3>1. i - 1 \in 1 .. Len(s) /\ (i - 1) + 1 = i /\ i \in Int
      BY <1>1, <1>2, <2>2
    <3>2. r[i] = s[i - 1]
      BY <1>2, <3>1
    <3>3. other[r[i]] = next[s[i - 1]]
      BY <1>3, <3>1, <3>2
    <3>4. next[s[i - 1]] = IF i - 1 = Len(s) THEN None ELSE s[i]
      BY <3>1 DEF Linked
    <3>5. i - 1 # Len(s) => r[i + 1] = s[i]
      BY <1>1, <1>2, <3>1
    <3> QED
      BY <1>1, <1>2, <3>1, <3>3, <3>4, <3>5
  <2> QED
    BY <2>1, <2>2
<1> QED
  BY <1>2, <1>4 DEF Linked, r

(* A cell without a link is put to the end.                                 *)
LEMMA LinkedEnd ==
  ASSUME NEW next, NEW first, NEW s,
         Linked(next, first, s), NEW m \in Cell, m \notin Members(s), next[m] = None,
         NEW other,
         \A x \in Cell : other[x] = IF s # <<>> /\ x = s[Len(s)] THEN m ELSE next[x]
  PROVE  /\ Linked(other, IF s = <<>> THEN m ELSE first, Append(s, m))
         /\ Members(Append(s, m)) = Members(s) \union {m}
<1> DEFINE r == Append(s, m)
<1>1. s \in Seq(Cell) /\ Distinct(s) /\ Len(s) \in Nat
  BY DEF Linked
<1>2. /\ r \in Seq(Cell) /\ Members(r) = Members(s) \union {m} /\ Distinct(r)
      /\ Len(r) = Len(s) + 1 /\ r # <<>>
      /\ r[Len(s) + 1] = m /\ \A i \in 1 .. Len(s) : r[i] = s[i]
  <2>1. r \in Seq(Cell) /\ Members(r) = Members(s) \union {m} /\ Distinct(r)
    BY <1>1, AppendMembers
  <2>2. Len(r) = Len(s) + 1 /\ r[Len(s) + 1] = m /\ \A i \in 1 .. Len(s) : r[i] = s[i]
    BY <1>1
  <2>3. r # <<>>
    BY <1>1, <2>2
  <2> QED
    BY <2>1, <2>2, <2>3
<1> HIDE DEF r
<1>3. \A i \in 1 .. Len(s) : s[i] \in Cell /\ s[i] # m
  BY <1>1 DEF Members
<1>4. ASSUME NEW i \in 1 .. Len(r)
      PROVE  other[r[i]] = IF i = Len(r) THEN None ELSE r[i + 1]
  <2>1. CASE i = Len(s) + 1
    BY <1>1, <1>2, <1>3, <2>1
  <2>2. CASE i # Len(s) + 1
    <3>1. i \in 1 .. Len(s) /\ s # <<>>
      BY <1>1, <1>2, <2>2
    <3>2. next[s[i]] = IF i = Len(s) THEN None ELSE s[i + 1]
      BY <3>1 DEF Linked
    <3>3. CASE i = Len(s)
      BY <1>2, <1>3, <3>1, <3>3
    <3>4. CASE i # Len(s)
      <4>1. i + 1 \in 1 .. Len(s) /\ Len(s) \in 1 .. Len(s)
        BY <1>1, <3>1, <3>4
      <4>2. s[i] # s[Len(s)]
        BY <1>1, <3>1, <3>4, <4>1 DEF Distinct
      <4>3. other[s[i]] = next[s[i]]
        BY <1>3, <3>1, <4>1, <4>2
      <4> QED
        BY <1>2, <3>1, <3>2, <3>4, <4>1, <4>3
    <3> QED
      BY <3>3, <3>4
  <2> QED
    BY <2>1, <2>2
<1>5. (IF s = <<>> THEN m ELSE first) = r[1]
  BY <1>1, <1>2 DEF Linked
<1> QED
  BY <1>2, <1>4, <1>5 DEF Linked, r

\* The links once the cells of s were put in front of front, one by one.
Reversed(next, front, s) ==
  [m \in Cell |-> IF m \notin Members(s) THEN next[m]
                 ELSE IF m = s[1] THEN front
                 ELSE CHOOSE p \in Members(s) : next[p] = m]

(* All cells of one chain are put in front of another one.                  *)
LEMMA LinkedReversed ==
  ASSUME NEW next \in [Cell -> Cell \union {None}],
         NEW first, NEW s, Linked(next, first, s),
         NEW front, NEW f, Linked(next, front, f), Members(s) \intersect Members(f) = {},
         NEW other, other = Reversed(next, front, s)
  PROVE  \E r : /\ Linked(other, IF s = <<>> THEN front ELSE s[Len(s)], r)
                /\ Members(r) = Members(s) \union Members(f)
<1> DEFINE L == Len(s)
           K == Len(f)
           r == [i \in 1 .. L + K |-> IF i <= L THEN s[L + 1 - i] ELSE f[i - L]]
<1>1. /\ s \in Seq(Cell) /\ Distinct(s) /\ L \in Nat /\ DOMAIN s = 1 .. L
      /\ f \in Seq(Cell) /\ Distinct(f) /\ K \in Nat /\ DOMAIN f = 1 .. K
      /\ front = IF K = 0 THEN None ELSE f[1]
      /\ \A i \in 1 .. L : next[s[i]] = IF i = L THEN None ELSE s[i + 1]
      /\ \A i \in 1 .. K : next[f[i]] = IF i = K THEN None ELSE f[i + 1]
      /\ None \notin Cell
  BY MessageQueueConstants DEF Linked
<1>2. /\ \A i \in 1 .. L : s[i] \in Cell /\ s[i] \in Members(s)
      /\ \A i \in 1 .. K : f[i] \in Cell /\ f[i] \in Members(f)
      /\ s = <<>> <=> L = 0
  <2>1. s \in Seq(Cell) /\ f \in Seq(Cell)
    BY DEF Linked
  <2> QED
    BY <2>1 DEF Members
<1> HIDE DEF L, K
<1>4. ASSUME NEW i \in 1 .. L + K
      PROVE  \/ i <= L /\ L + 1 - i \in 1 .. L /\ r[i] = s[L + 1 - i]
             \/ i > L /\ i - L \in 1 .. K /\ r[i] = f[i - L]
  BY <1>1
<1>5. r \in Seq(Cell) /\ Len(r) = L + K /\ DOMAIN r = 1 .. L + K
  <2>1. r \in [1 .. L + K -> Cell] /\ L + K \in Nat
    BY <1>1, <1>2, <1>4
  <2> HIDE DEF r
  <2> QED
    BY <2>1
<1> HIDE DEF r
<1>6. Members(r) = Members(s) \union Members(f)
  <2>1. ASSUME NEW i \in 1 .. L PROVE s[i] \in Members(r)
    <3>1. L + 1 - i \in 1 .. L + K /\ L + 1 - i <= L /\ L + 1 - (L + 1 - i) = i
      BY <1>1
    <3>2. r[L + 1 - i] = s[i]
      BY <1>1, <1>4, <3>1
    <3> QED
      BY <1>5, <3>1, <3>2 DEF Members
  <2>2. ASSUME NEW i \in 1 .. K PROVE f[i] \in Members(r)
    <3>1. L + i \in 1 .. L + K /\ L + i > L /\ L + i - L = i
      BY <1>1
    <3>2. r[L + i] = f[i]
      BY <1>1, <1>4, <3>1
    <3> QED
      BY <1>5, <3>1, <3>2 DEF Members
  <2>3. ASSUME NEW i \in 1 .. L + K PROVE r[i] \in Members(s) \union Members(f)
    BY <1>2, <1>4
  <2>4. /\ Members(s) = {s[i] : i \in 1 .. L} /\ Members(f) = {f[i] : i \in 1 .. K}
        /\ Members(r) = {r[i] : i \in 1 .. L + K}
    BY <1>1, <1>5 DEF Members
  <2> QED
    BY <2>1, <2>2, <2>3, <2>4
<1>7. Distinct(r)
  <2>1. ASSUME NEW i \in 1 .. L + K, NEW j \in 1 .. L + K, r[i] = r[j] PROVE i = j
    <3>1. CASE i <= L /\ j <= L
      <4>1. /\ L + 1 - i \in DOMAIN s /\ L + 1 - j \in DOMAIN s
            /\ s[L + 1 - i] = s[L + 1 - j]
        BY <1>1, <1>4, <2>1, <3>1
      <4>2. L + 1 - i = L + 1 - j
        BY <1>1, <4>1 DEF Distinct
      <4> QED
        BY <1>1, <4>2
    <3>2. CASE i > L /\ j > L
      <4>1. i - L \in DOMAIN f /\ j - L \in DOMAIN f /\ f[i - L] = f[j - L]
        BY <1>1, <1>4, <2>1, <3>2
      <4>2. i - L = j - L
        BY <1>1, <4>1 DEF Distinct
      <4> QED
        BY <1>1, <4>2
    <3>3. CASE ~(i <= L <=> j <= L)
      BY <1>1, <1>2, <1>4, <2>1, <3>3
    <3> QED
      BY <1>1, <3>1, <3>2, <3>3
  <2> QED
    BY <1>5, <2>1 DEF Distinct
<1>8. (IF s = <<>> THEN front ELSE s[Len(s)]) = IF r = <<>> THEN None ELSE r[1]
  <2>1. r = <<>> <=> L = 0 /\ K = 0
    BY <1>1, <1>5
  <2>2. CASE L = 0
    <3>1. K # 0 => r[1] = f[1]
      <4>1. K # 0 => 1 \in 1 .. L + K /\ 1 > L /\ 1 - L = 1
        BY <1>1, <2>2
      <4> QED
        BY <1>1, <1>4, <4>1
    <3> QED
      BY <1>1, <1>2, <2>1, <2>2, <3>1
  <2>3. CASE L # 0
    <3>1. 1 \in 1 .. L + K /\ 1 <= L /\ L + 1 - 1 = L
      BY <1>1, <2>3
    <3>2. r[1] = s[L]
      BY <1>1, <1>4, <3>1
    <3> QED
      BY <1>2, <2>1, <2>3, <3>2 DEF L
  <2> QED
    BY <2>2, <2>3
<1>9. ASSUME NEW i \in 1 .. L + K
      PROVE  other[r[i]] = IF i = L + K THEN None ELSE r[i + 1]
  <2>1. CASE i > L
    <3>1. i - L \in 1 .. K /\ r[i] = f[i - L] /\ r[i] \in Cell /\ r[i] \notin Members(s)
      BY <1>1, <1>2, <1>4, <2>1
    <3>2. other[r[i]] = next[f[i - L]]
      BY <3>1 DEF Reversed
    <3>3. next[f[i - L]] = IF i - L = K THEN None ELSE f[i - L + 1]
      BY <1>1, <3>1
    <3>4. i # L + K => r[i + 1] = f[i - L + 1]
      <4>1. i # L + K => i + 1 \in 1 .. L + K /\ i + 1 > L /\ i + 1 - L = i - L + 1
        BY <1>1, <2>1
      <4> QED
        BY <1>1, <1>4, <4>1
    <3> QED
      BY <1>1, <3>1, <3>2, <3>3, <3>4
  <2>2. CASE i = L
    <3>1. L \in 1 .. L + K /\ 1 \in 1 .. L /\ L + 1 - L = 1 /\ L <= L
      BY <1>1, <2>2
    <3>2. r[i] = s[1] /\ s[1] \in Cell /\ s[1] \in Members(s)
      BY <1>1, <1>2, <1>4, <2>2, <3>1
    <3>3. other[r[i]] = front
      BY <3>2 DEF Reversed
    <3>4. K # 0 => r[i + 1] = f[1]
      <4>1. K # 0 => i + 1 \in 1 .. L + K /\ i + 1 > L /\ i + 1 - L = 1
        BY <1>1, <2>2
      <4> QED
        BY <1>1, <1>4, <4>1
    <3> QED
      BY <1>1, <2>2, <3>3, <3>4
  <2>3. CASE i < L
    <3> DEFINE k == L - i
    <3>1. /\ k \in 1 .. L /\ k + 1 \in 1 .. L /\ k + 1 # 1 /\ 1 \in 1 .. L
          /\ i + 1 \in 1 .. L + K /\ i + 1 <= L /\ i <= L
          /\ L + 1 - i = k + 1 /\ L + 1 - (i + 1) = k /\ k # L
      BY <1>1, <2>3, SMTT(30)
    <3> HIDE DEF k
    <3>2. r[i] = s[k + 1] /\ r[i + 1] = s[k]
      <4>1. ~(i > L) /\ ~(i + 1 > L)
        BY <1>1, <3>1
      <4>2. r[i] = s[L + 1 - i]
        BY <1>4, <4>1
      <4>3. r[i + 1] = s[L + 1 - (i + 1)]
        BY <1>4, <3>1, <4>1
      <4> QED
        BY <3>1, <4>2, <4>3
    <3>3. s[k + 1] # s[1] /\ s[k + 1] \in Cell /\ s[k + 1] \in Members(s)
      BY <1>1, <1>2, <3>1 DEF Distinct
    <3>4. other[r[i]] = CHOOSE p \in Members(s) : next[p] = s[k + 1]
      BY <3>2, <3>3 DEF Reversed
    <3>5. s[k] \in Members(s) /\ next[s[k]] = s[k + 1]
      BY <1>1, <1>2, <3>1
    <3>6. ASSUME NEW p \in Members(s), next[p] = s[k + 1] PROVE p = s[k]
      <4>1. PICK j \in 1 .. L : p = s[j]
        BY <1>1 DEF Members
      <4>2. next[s[j]] = IF j = L THEN None ELSE s[j + 1]
        BY <1>1
      <4>3. j # L /\ s[j + 1] = s[k + 1]
        BY <1>1, <3>3, <3>6, <4>1, <4>2
      <4>4. j + 1 \in 1 .. L
        BY <1>1, <4>3
      <4>5. j + 1 = k + 1
        BY <1>1, <3>1, <4>3, <4>4 DEF Distinct
      <4>6. j = k
        BY <1>1, <3>1, <4>5
      <4> QED
        BY <4>1, <4>6
    <3>7. (CHOOSE p \in Members(s) : next[p] = s[k + 1]) = s[k]
      BY <3>5, <3>6
    <3>8. i # L + K
      BY <1>1, <2>3
    <3> QED
      BY <3>2, <3>4, <3>7, <3>8
  <2> QED
    BY <1>1, <2>1, <2>2, <2>3
<1>10. Linked(other, IF s = <<>> THEN front ELSE s[Len(s)], r)
  BY <1>5, <1>7, <1>8, <1>9 DEF Linked
<1> QED
  BY <1>6, <1>10

(* Finitely many things can be put in an order.                             *)
LEMMA OrderExists ==
  ASSUME NEW S, IsFiniteSet(S)
  PROVE  LET s == CHOOSE s \in SetToSeqs(S) : TRUE
         IN  s \in Seq(S) /\ Distinct(s) /\ Members(s) = S /\ Len(s) = Cardinality(S)
<1> DEFINE n == Cardinality(S)
           s == CHOOSE s \in SetToSeqs(S) : TRUE
<1>1. n \in Nat /\ ExistsBijection(1 .. n, S)
  BY FS_CardinalityType
<1>2. PICK f : f \in Bijection(1 .. n, S)
  BY <1>1 DEF ExistsBijection
<1>3. f \in [1 .. n -> S] /\ \A i, j \in 1 .. n : f[i] = f[j] => i = j
  BY <1>2, Fun_BijectionProperties
<1>4. f \in SetToSeqs(S)
  BY <1>3 DEF SetToSeqs
<1>5. s \in SetToSeqs(S)
  BY <1>4
<1> HIDE DEF s
<1>6. s \in [1 .. n -> S] /\ \A i, j \in 1 .. n : i # j => s[i] # s[j]
  BY <1>5 DEF SetToSeqs
<1>7. s \in Seq(S) /\ Len(s) = n /\ DOMAIN s = 1 .. n /\ Distinct(s)
  BY <1>1, <1>6 DEF Distinct
<1>8. ASSUME NEW x \in S PROVE x \in Members(s)
  <2>1. IsFiniteSet(1 .. n) /\ Cardinality(1 .. n) = n
    <3> HIDE DEF n
    <3>1. 1 \in Int /\ n \in Int
      BY <1>1
    <3> QED
      BY <1>1, <3>1, FS_Interval
  <2>2. s \in Injection(1 .. n, S)
    BY <1>6, Fun_IsInj
  <2>3. s \in Surjection(1 .. n, S)
    BY <2>1, <2>2, FS_Injection
  <2>4. \A y \in S : \E i \in 1 .. n : s[i] = y
    BY <2>3 DEF Surjection
  <2>5. PICK i \in 1 .. n : s[i] = x
    BY <2>4
  <2> QED
    BY <1>7, <2>5 DEF Members
<1>9. Members(s) = S
  BY <1>6, <1>7, <1>8 DEF Members
<1> QED
  BY <1>7, <1>9 DEF s

-----------------------------------------------------------------------------
(* The inductive invariant of the message queue *)

\* Where a context has a cell and works on it without the lock.
Inside == {"mqFill", "mqUrgent", "mqCopy"}

CellTypes ==
  /\ link \in [Cell -> Cell \union {None}]
  /\ data \in [Cell -> Message \union {None}]
  /\ cell \in [Context -> Cell \union {None}]
  /\ message \in [Context -> Message \union {None}]

\* The free list has the cells of F, the message list those of Q, and every
\* other cell is with a context.
Chains(F, Q) ==
  /\ Linked(link, free, F) /\ Linked(link, head, Q)
  /\ tail = IF Q = <<>> THEN None ELSE Q[Len(Q)]
  /\ mqEntry = Len(Q)
  /\ Members(F) \intersect Members(Q) = {}
  /\ \A m \in Members(Q) : data[m] \in Message
  /\ \A c \in Context : cell[c] \notin Members(F) \union Members(Q)
  /\ \A m \in Cell : m \in Members(F) \union Members(Q) \/ \E c \in Context : cell[c] = m

\* What the contexts have in hand: a cell that will go to the end of the list
\* has no link, and one that was filled still holds the message.
Hands ==
  /\ \A c, d \in Context : cell[c] # None /\ cell[c] = cell[d] => c = d
  /\ \A c \in Context :
       /\ cell[c] # None <=> at[c] \in Inside
       /\ at[c] = "mqFill" => link[cell[c]] = None
       /\ at[c] \in {"mqFill", "mqUrgent"} =>
            message[c] \in Message /\ data[cell[c]] = message[c]
       /\ at[c] = "mqCopy" => data[cell[c]] \in Message

\* Only the queue's own calls are inside, and only they keep a handler busy.
Outside ==
  object # "queue" => /\ \A c \in Context : at[c] \notin Inside
                      /\ \A c \in Isr : at[c] = "idle"

\* An error is for a call that waits or waited.
Errors == \A t \in Thread : error[t] # "EOK" => at[t] \in List

Cells == CellTypes /\ Chains(Chain(link, free), Chain(link, head)) /\ Hands

QInv == Cells /\ Outside /\ Errors

-----------------------------------------------------------------------------
(* What the calls do to the places and errors of their callers *)

(* One context gets on.                                                     *)
LEMMA GoStays ==
  ASSUME Waits, Errors, Outside, object' = object,
         NEW c \in Context, NEW to, at' = [at EXCEPT ![c] = to],
         object # "queue" => to \notin Inside /\ (c \in Isr => to = "idle"),
         c \in Thread => to \in List \/ at[c] \notin List \/ error[c] = "EOK",
         \A t \in Thread : error'[t] # "EOK" => error'[t] = error[t]
  PROVE  Outside' /\ Errors'
<1>1. at = [d \in Context |-> at[d]] /\ Thread \subseteq Context /\ Isr \subseteq Context
  BY DEF Waits, Context
<1>2. at'[c] = to /\ \A d \in Context : d # c => at'[d] = at[d]
  BY <1>1
<1>3. Outside'
  BY <1>1, <1>2 DEF Outside
<1>4. ASSUME NEW t \in Thread, error'[t] # "EOK" PROVE at'[t] \in List
  <2>1. error[t] # "EOK" /\ at[t] \in List
    BY <1>4 DEF Errors
  <2> QED
    BY <1>1, <1>2, <2>1
<1> QED
  BY <1>3, <1>4 DEF Errors

(* Nobody gets on.                                                          *)
LEMMA RestStays ==
  ASSUME Errors, Outside, object' = object, at' = at,
         \A t \in Thread : error'[t] # "EOK" => error'[t] = error[t] \/ at[t] \in List
  PROVE  Outside' /\ Errors'
BY DEF Errors, Outside

(* Waking the first waiter leaves the errors as they are.                   *)
LEMMA FirstKeepsErrors ==
  ASSUME NEW l, ResumeFirst(l) PROVE \A t \in Thread : error'[t] = error[t]
<1>1. CASE waiters[l] = <<>>
  BY <1>1 DEF ResumeFirst, threadVars
<1>2. CASE waiters[l] # <<>>
  <2> DEFINE h == Head(waiters[l])
  <2>1. error' = [t \in Thread |-> IF t \in {h} THEN error[h] ELSE error[t]]
    BY <1>2 DEF ResumeFirst, Resume
  <2> HIDE DEF h
  <2> QED
    BY <2>1
<1> QED
  BY <1>1, <1>2

(* All who get an error this way wait.                                      *)
LEMMA AllInLists ==
  ASSUME Waits, NEW ls \in SUBSET List, ResumeAll(ls)
  PROVE  \A t \in Thread : error'[t] = error[t] \/ at[t] \in List
<1> DEFINE ts == UNION {ToSet(waiters[l]) : l \in ls}
<1>1. error' = [t \in Thread |-> IF t \in ts THEN "ERROR" ELSE error[t]]
  BY DEF ResumeAll
<1>2. ASSUME NEW t \in ts PROVE at[t] \in List
  <2>1. PICK l \in ls : t \in ToSet(waiters[l])
    OBVIOUS
  <2>2. l \in List /\ t \in Members(waiters[l])
    BY <2>1 DEF ToSet, Members
  <2>3. at[t] = l
    BY <2>2 DEF Waits
  <2> QED
    BY <2>2, <2>3
<1> HIDE DEF ts
<1> QED
  BY <1>1, <1>2

(* A thread that goes to wait.                                              *)
LEMMA WaitStays ==
  ASSUME Waits, Typed, Errors, Outside, object' = object,
         NEW t \in Thread, NEW l \in List, NEW n, NEW lim, Wait(t, l, n, lim)
  PROVE  Outside' /\ Errors'
<1>1. at' = [at EXCEPT ![t] = l] /\ error' = [error EXCEPT ![t] = "EOK"]
  BY DEF Wait
<1>2. \A u \in Thread : error'[u] # "EOK" => error'[u] = error[u]
  BY <1>1 DEF Typed
<1>3. t \in Context /\ l \notin Inside /\ (t \in Isr => FALSE)
  BY WaitingConstants DEF Context, List, Inside
<1> QED
  BY <1>1, <1>2, <1>3, GoStays

(* The calls on the other objects.                                          *)
LEMMA MutexStays ==
  ASSUME Waits, Typed, Errors, Outside, MutexNext, object' = object
  PROVE  Outside' /\ Errors'
<1>0. "mutex" \in List /\ Thread \subseteq Context
  BY DEF List, Context
<1>1. PICK t \in Thread :
        \/ MutexTake(t) \/ MutexTakeAgain(t) \/ MutexReleaseOne(t) \/ MutexFree(t)
        \/ \E lim \in Limits : MutexBlock(t, lim)
        \/ MutexTaken(t)
        \/ MutexHandOver(t)
  BY DEF MutexNext
<1>2. CASE MutexTake(t) \/ MutexTakeAgain(t) \/ MutexReleaseOne(t) \/ MutexFree(t)
  BY <1>2, RestStays
     DEF MutexTake, MutexTakeAgain, MutexReleaseOne, MutexFree, threadVars
<1>3. CASE \E lim \in Limits : MutexBlock(t, lim)
  BY <1>0, <1>3, WaitStays DEF MutexBlock
<1>4. CASE MutexTaken(t)
  <2>1. at' = [at EXCEPT ![t] = "idle"] /\ error' = error /\ error[t] = "EOK"
    BY <1>4 DEF MutexTaken, Return, Woken, threadVars
  <2> QED
    BY <1>0, <2>1, GoStays DEF Inside
<1>5. CASE MutexHandOver(t)
  BY <1>5, FirstKeepsErrors, RestStays DEF MutexHandOver
<1> QED
  BY <1>1, <1>2, <1>3, <1>4, <1>5

\* No section of an event touches what the invariant speaks of.
LEMMA EventStays ==
  ASSUME Waits, Typed, Errors, Outside, EventNext, object' = object
  PROVE  Outside' /\ Errors'
<1>0. "event" \in List /\ {"event"} \in SUBSET List /\ Thread \subseteq Context
  BY DEF List, Context
<1>1. ASSUME NEW c \in Context, NEW sent \in SUBSET Bit, EventSend(c, sent)
      PROVE  Outside' /\ Errors'
  <2>1. PICK ts : error' = [t \in Thread |-> IF t \in ts THEN "EOK" ELSE error[t]]
    BY <1>1 DEF EventSend, Resume
  <2>2. \A t \in Thread : error'[t] # "EOK" => error'[t] = error[t]
    BY <2>1
  <2>3. at' = at
    BY <1>1 DEF EventSend
  <2> QED
    BY <2>2, <2>3, RestStays
<1>2. ASSUME NEW c \in Context, EventReset(c) PROVE Outside' /\ Errors'
  BY <1>0, <1>2, AllInLists, RestStays DEF EventReset
<1>3. ASSUME NEW t \in Thread, NEW want \in SUBSET Bit, NEW how \in Info,
             EventRecv(t, want, how)
      PROVE  Outside' /\ Errors'
  BY <1>3, RestStays DEF EventRecv, threadVars
<1>4. ASSUME NEW t \in Thread, NEW want \in SUBSET Bit, NEW how \in Info,
             NEW lim \in Limits, EventWait(t, want, how, lim)
      PROVE  Outside' /\ Errors'
  BY <1>0, <1>4, WaitStays DEF EventWait
<1>5. ASSUME NEW t \in Thread, EventReturn(t) PROVE Outside' /\ Errors'
  <2>1. at' = [at EXCEPT ![t] = "idle"] /\ error' = error /\ error[t] = "EOK"
    BY <1>5 DEF EventReturn, Return, Woken, threadVars
  <2> QED
    BY <1>0, <2>1, GoStays DEF Inside
<1> QED
  BY <1>1, <1>2, <1>3, <1>4, <1>5 DEF EventNext

\* Nor does one of a mailbox,
LEMMA MailboxStays ==
  ASSUME Waits, Typed, Errors, Outside, MailboxNext, object' = object
  PROVE  Outside' /\ Errors'
<1>0. /\ "mbRecv" \in List /\ "mbSend" \in List /\ {"mbRecv", "mbSend"} \in SUBSET List
      /\ Thread \subseteq Context /\ Thread \intersect Isr = {}
  BY WaitingConstants DEF List, Context
<1>1. ASSUME NEW c \in Context,
             \/ \E v \in Mail : MbSend(c, v) \/ MbUrgent(c, v)
             \/ MbRecv(c)
      PROVE  Outside' /\ Errors'
  <2>1. at' = at /\ (ResumeFirst("mbRecv") \/ ResumeFirst("mbSend"))
    BY <1>1 DEF MbSend, MbUrgent, MbRecv
  <2>2. \A t \in Thread : error'[t] = error[t]
    BY <2>1, FirstKeepsErrors
  <2> QED
    BY <2>1, <2>2, RestStays
<1>2. ASSUME NEW c \in Context, MbReset(c) PROVE Outside' /\ Errors'
  BY <1>0, <1>2, AllInLists, RestStays DEF MbReset
<1>3. ASSUME NEW t \in Thread, NEW lim \in Limits,
             \/ \E v \in Mail : MbSendWait(t, v, lim)
             \/ MbRecvWait(t, lim)
      PROVE  Outside' /\ Errors'
  <2>1. \E l \in List : \E n, k : Wait(t, l, n, k)
    BY <1>0, <1>3 DEF MbSendWait, MbRecvWait
  <2> QED
    BY <2>1, WaitStays
<1>4. ASSUME NEW t \in Thread, MbSendAgain(t) \/ MbRecvAgain(t)
      PROVE  Outside' /\ Errors'
  <2>1. \E l \in List : \E n, k : Wait(t, l, n, k)
    BY <1>0, <1>4 DEF MbSendAgain, MbRecvAgain
  <2> QED
    BY <2>1, WaitStays
<1>5. ASSUME NEW t \in Thread,
             \/ MbSendRetest(t) \/ MbRecvRetest(t)
             \/ MbStore(t) \/ MbIn(t) \/ MbCountUp(t) \/ MbOut(t) \/ MbCountDown(t)
      PROVE  Outside' /\ Errors'
  <2>1. error' = error /\ (at[t] \notin List \/ error[t] = "EOK")
    BY <1>5 DEF MbSendRetest, MbRecvRetest, MbStore, MbIn, MbCountUp, MbOut, MbCountDown,
                Woken, threadVars, List
  <2>2. \E to : at' = [at EXCEPT ![t] = to] /\ to \notin Inside
    BY <1>5, SMTT(30) DEF MbSendRetest, MbRecvRetest, MbStore, MbIn, MbCountUp, MbOut, MbCountDown,
                Goto, Return, Inside
  <2> QED
    BY <1>0, <2>1, <2>2, GoStays
<1>6. ASSUME NEW t \in Thread, MbWakeRecv(t) \/ MbWakeSend(t)
      PROVE  Outside' /\ Errors'
  <2>1. /\ at' = [at EXCEPT ![t] = "idle"] /\ at[t] \notin List
        /\ ResumeFirst("mbRecv") \/ ResumeFirst("mbSend")
    BY <1>6 DEF MbWakeRecv, MbWakeSend, Return, List
  <2>2. \A u \in Thread : error'[u] = error[u]
    BY <2>1, FirstKeepsErrors
  <2> QED
    BY <1>0, <2>1, <2>2, GoStays DEF Inside
<1> QED
  BY <1>1, <1>2, <1>3, <1>4, <1>5, <1>6 DEF MailboxNext

\* nor one of a pool.
LEMMA PoolStays ==
  ASSUME Waits, Typed, Errors, Outside, MemPoolNext, object' = object
  PROVE  Outside' /\ Errors'
<1>0. "pool" \in List /\ Thread \subseteq Context
  BY DEF List, Context
<1>1. ASSUME NEW c \in Context, MpAlloc(c) PROVE Outside' /\ Errors'
  <2>1. /\ at' = [at EXCEPT ![c] = "idle"] /\ error' = error
        /\ c \in Thread => at[c] \notin List \/ error[c] = "EOK"
    BY <1>1 DEF MpAlloc, Return, Idle, Woken, threadVars, List
  <2> QED
    BY <2>1, GoStays DEF Inside
<1>2. ASSUME NEW c \in Context, NEW b \in Block, MpFree(c, b) PROVE Outside' /\ Errors'
  BY <1>2, FirstKeepsErrors, RestStays DEF MpFree
<1>3. ASSUME NEW t \in Thread, NEW lim \in Limits, MpWait(t, lim) PROVE Outside' /\ Errors'
  BY <1>0, <1>3, WaitStays DEF MpWait
<1>4. ASSUME NEW t \in Thread, MpTooLate(t) PROVE Outside' /\ Errors'
  <2>1. at' = [at EXCEPT ![t] = "idle"] /\ error' = error /\ error[t] = "EOK"
    BY <1>4 DEF MpTooLate, Return, Woken, threadVars
  <2> QED
    BY <1>0, <2>1, GoStays DEF Inside
<1> QED
  BY <1>1, <1>2, <1>3, <1>4 DEF MemPoolNext

-----------------------------------------------------------------------------
(* The sections of the calls, each with its step of the channel *)

\* The messages of the cells of Q.
Contents(Q, d) == [i \in 1 .. Len(Q) |-> d[Q[i]]]

(* What the invariant says of the chains as they are.                       *)
LEMMA CellsNow ==
  ASSUME Cells
  PROVE  \E F, Q : /\ Chains(F, Q)
                   /\ F \in Seq(Cell) /\ Q \in Seq(Cell)
                   /\ Chain(link, head) = Q
                   /\ MqContent = Contents(Q, data)
<1> DEFINE F == Chain(link, free)
           Q == Chain(link, head)
<1>1. Chains(F, Q)
  BY DEF Cells
<1>2. F \in Seq(Cell) /\ Q \in Seq(Cell)
  BY <1>1 DEF Chains, Linked
<1> HIDE DEF F
<1>3. MqContent = [i \in DOMAIN Q |-> data[Q[i]]]
  BY DEF MqContent
<1> HIDE DEF Q
<1>4. MqContent = Contents(Q, data)
  BY <1>2, <1>3 DEF Contents
<1> QED
  BY <1>1, <1>2, <1>4 DEF Q

(* The same behind a step.                                                  *)
LEMMA CellsThen ==
  ASSUME CellTypes', Hands', NEW F, NEW Q, Chains(F, Q)'
  PROVE  Cells' /\ MqContent' = Contents(Q, data')
<1>1. link' \in [Cell -> Cell \union {None}]
  BY DEF CellTypes
<1>2. Linked(link', free', F) /\ Linked(link', head', Q)
  BY DEF Chains
<1>3. Chain(link', free') = F /\ Chain(link', head') = Q
  BY <1>1, <1>2, ChainIsLinked
<1>4. Cells'
  BY <1>3 DEF Cells
<1>5. Q \in Seq(Cell)
  BY <1>2 DEF Linked
<1>6. MqContent' = [i \in DOMAIN Q |-> data'[Q[i]]]
  BY <1>3 DEF MqContent
<1> QED
  BY <1>4, <1>5, <1>6 DEF Contents

\* What is on its way in and out, context by context.
SendingOf(c) == IF at[c] \in {"mqFill", "mqUrgent"} THEN message[c] ELSE None
ReceivingOf(c) == IF at[c] = "mqCopy" THEN data[cell[c]] ELSE None

(* The first section of sending offers the message.                         *)
LEMMA TakeOffers ==
  ASSUME Waits, Cells, NEW c \in Context, NEW v \in Message, NEW urgent \in BOOLEAN,
         MqTake(c, v, urgent)
  PROVE  Cells' /\ QueueChannel!Next
<1>1. PICK F, Q : /\ Chains(F, Q) /\ F \in Seq(Cell) /\ Q \in Seq(Cell)
                  /\ Chain(link, head) = Q /\ MqContent = Contents(Q, data)
  BY CellsNow
<1> DEFINE to == IF urgent THEN "mqUrgent" ELSE "mqFill"
<1>2. /\ free # None
      /\ cell' = [cell EXCEPT ![c] = free]
      /\ free' = link[free]
      /\ data' = [data EXCEPT ![free] = v]
      /\ link' = (IF urgent THEN link ELSE [link EXCEPT ![free] = None])
      /\ message' = [message EXCEPT ![c] = v]
      /\ at' = [at EXCEPT ![c] = to]
      /\ UNCHANGED <<head, tail, mqEntry>>
      /\ at[c] \in {"idle", "mqSend"}
  BY DEF MqTake, Goto, Sender, Idle, Woken
<1>3. /\ at = [d \in Context |-> at[d]]
      /\ CellTypes /\ Hands
      /\ None \notin Cell /\ None \notin Message
  BY MessageQueueConstants DEF Waits, Cells
<1>4. /\ Linked(link, free, F) /\ Linked(link, head, Q)
      /\ F # <<>>
      /\ Members(F) \intersect Members(Q) = {}
      /\ \A d \in Context : cell[d] \notin Members(F) \union Members(Q)
  BY <1>1, <1>2 DEF Chains, Linked
<1>5. /\ Linked(link, free', Tail(F))
      /\ free \in Cell /\ free \in Members(F)
      /\ Members(Tail(F)) = Members(F) \ {free}
  BY <1>2, <1>4, LinkedTail
<1>6. /\ at'[c] = to /\ cell'[c] = free /\ message'[c] = v /\ data'[free] = v
      /\ ~urgent => link'[free] = None
      /\ \A d \in Context : d # c =>
           at'[d] = at[d] /\ cell'[d] = cell[d] /\ message'[d] = message[d]
      /\ \A m \in Cell : m # free => data'[m] = data[m] /\ link'[m] = link[m]
  BY <1>2, <1>3, <1>5 DEF CellTypes
<1>7. CellTypes'
  BY <1>2, <1>3, <1>5 DEF CellTypes
<1>8. cell[c] = None
  BY <1>2, <1>3 DEF Hands, Inside
<1>9. \A d \in Context : cell[d] # free
  BY <1>4, <1>5
<1>10. ASSUME NEW d \in Context, d # c, cell[d] # None
       PROVE  cell[d] \in Cell /\ cell[d] # free
  BY <1>3, <1>9, <1>10 DEF CellTypes
<1>11. Hands'
  <2>1. \A d, e \in Context : cell'[d] # None /\ cell'[d] = cell'[e] => d = e
    BY <1>3, <1>6, <1>9 DEF Hands
  <2>2. ASSUME NEW d \in Context
        PROVE  /\ cell'[d] # None <=> at'[d] \in Inside
               /\ at'[d] = "mqFill" => link'[cell'[d]] = None
               /\ at'[d] \in {"mqFill", "mqUrgent"} =>
                    message'[d] \in Message /\ data'[cell'[d]] = message'[d]
               /\ at'[d] = "mqCopy" => data'[cell'[d]] \in Message
    <3>1. CASE d = c
      BY <1>2, <1>6, <3>1 DEF Inside
    <3>2. CASE d # c
      BY <1>3, <1>6, <1>10, <3>2 DEF Hands, Inside
    <3> QED
      BY <3>1, <3>2
  <2> QED
    BY <2>1, <2>2 DEF Hands
<1>12. Members(F) \subseteq Cell /\ Members(Q) \subseteq Cell
  BY <1>1 DEF Members
<1>13. Linked(link', free', Tail(F)) /\ Linked(link', head', Q)
  <2>1. \A m \in Members(Tail(F)) \union Members(Q) : link'[m] = link[m]
    BY <1>4, <1>5, <1>6, <1>12
  <2> QED
    BY <1>2, <1>4, <1>5, <2>1, LinkedElsewhere
<1>14. Chains(Tail(F), Q)'
  <2>1. \A m \in Members(Q) : data'[m] \in Message
    BY <1>1, <1>4, <1>5, <1>6, <1>12 DEF Chains
  <2>2. \A d \in Context : cell'[d] \notin Members(Tail(F)) \union Members(Q)
    BY <1>4, <1>5, <1>6
  <2>3. \A m \in Cell : \/ m \in Members(Tail(F)) \union Members(Q)
                        \/ \E d \in Context : cell'[d] = m
    <3>1. ASSUME NEW m \in Cell, NEW d \in Context, cell[d] = m
          PROVE  cell'[d] = m
      BY <1>3, <1>6, <1>8, <3>1
    <3> QED
      BY <1>1, <1>5, <1>6, <3>1 DEF Chains
  <2> QED
    BY <1>1, <1>2, <1>4, <1>5, <1>13, <2>1, <2>2, <2>3 DEF Chains
<1>15. Cells' /\ MqContent' = Contents(Q, data')
  BY <1>7, <1>11, <1>14, CellsThen
<1>16. MqContent' = MqContent
  <2>1. ASSUME NEW i \in 1 .. Len(Q) PROVE data'[Q[i]] = data[Q[i]]
    <3>1. Q[i] \in Members(Q)
      BY <1>1 DEF Members
    <3> QED
      BY <1>4, <1>5, <1>6, <1>12, <3>1
  <2> QED
    BY <1>1, <1>15, <2>1 DEF Contents
<1>17. MqReceiving' = MqReceiving
  <2>1. ASSUME NEW d \in Context PROVE ReceivingOf(d)' = ReceivingOf(d)
    <3>1. CASE d = c
      BY <1>2, <1>6, <3>1 DEF ReceivingOf
    <3>2. CASE d # c
      BY <1>3, <1>6, <1>10, <3>2 DEF ReceivingOf, Hands, Inside
    <3> QED
      BY <3>1, <3>2
  <2> QED
    BY <2>1 DEF MqReceiving, ReceivingOf
<1>18. MqSending[c] = None /\ MqSending' = [MqSending EXCEPT ![c] = v]
  <2>1. ASSUME NEW d \in Context PROVE SendingOf(d)' = IF d = c THEN v ELSE SendingOf(d)
    BY <1>6 DEF SendingOf
  <2>2. MqSending = [d \in Context |-> SendingOf(d)]
    BY DEF MqSending, SendingOf
  <2>3. MqSending' = [d \in Context |-> SendingOf(d)']
    BY DEF MqSending, SendingOf
  <2>4. SendingOf(c) = None
    BY <1>2 DEF SendingOf
  <2> QED
    BY <2>1, <2>2, <2>3, <2>4
<1>19. QueueChannel!Offer(c)
  BY <1>16, <1>17, <1>18 DEF QueueChannel!Offer
<1> QED
  BY <1>15, <1>19 DEF QueueChannel!Next

(* Contents of a longer and of a shorter list.                              *)
LEMMA ContentsChange ==
  ASSUME NEW Q \in Seq(Cell), NEW d
  PROVE  /\ Len(Contents(Q, d)) = Len(Q)
         /\ \A m \in Cell :
              /\ Contents(Append(Q, m), d) = Append(Contents(Q, d), d[m])
              /\ Contents(<<m>> \o Q, d) = <<d[m]>> \o Contents(Q, d)
         /\ Q # <<>> => /\ Contents(Q, d) # <<>>
                        /\ Head(Contents(Q, d)) = d[Head(Q)]
                        /\ Contents(Tail(Q), d) = Tail(Contents(Q, d))
<1>1. Len(Q) \in Nat /\ Len(Contents(Q, d)) = Len(Q)
  BY DEF Contents
<1>2. ASSUME NEW m \in Cell
      PROVE  Contents(Append(Q, m), d) = Append(Contents(Q, d), d[m])
  BY <1>1 DEF Contents
<1>3. ASSUME NEW m \in Cell
      PROVE  Contents(<<m>> \o Q, d) = <<d[m]>> \o Contents(Q, d)
  BY <1>1 DEF Contents
<1>4. ASSUME Q # <<>>
      PROVE  /\ Contents(Q, d) # <<>>
             /\ Head(Contents(Q, d)) = d[Head(Q)]
             /\ Contents(Tail(Q), d) = Tail(Contents(Q, d))
  BY <1>1, <1>4 DEF Contents
<1> QED
  BY <1>1, <1>2, <1>3, <1>4

(* What is on its way changes for one context.                              *)
LEMMA WaysChange ==
  ASSUME NEW c \in Context,
         \A d \in Context : d # c =>
           SendingOf(d)' = SendingOf(d) /\ ReceivingOf(d)' = ReceivingOf(d)
  PROVE  /\ MqSending[c] = SendingOf(c) /\ MqReceiving[c] = ReceivingOf(c)
         /\ MqSending' = [MqSending EXCEPT ![c] = SendingOf(c)']
         /\ MqReceiving' = [MqReceiving EXCEPT ![c] = ReceivingOf(c)']
         /\ SendingOf(c)' = SendingOf(c) => MqSending' = MqSending
         /\ ReceivingOf(c)' = ReceivingOf(c) => MqReceiving' = MqReceiving
<1>1. /\ MqSending = [d \in Context |-> SendingOf(d)]
      /\ MqReceiving = [d \in Context |-> ReceivingOf(d)]
  BY DEF MqSending, SendingOf, MqReceiving, ReceivingOf
<1>2. /\ MqSending' = [d \in Context |-> SendingOf(d)']
      /\ MqReceiving' = [d \in Context |-> ReceivingOf(d)']
  BY DEF MqSending, SendingOf, MqReceiving, ReceivingOf
<1> QED
  BY <1>1, <1>2

(* A step that leaves the cells, and the contexts that have one, alone.     *)
LEMMA AsideStep ==
  ASSUME Cells, UNCHANGED <<head, tail, free, link, data, mqEntry, cell>>,
         message' \in [Context -> Message \union {None}],
         \A c \in Context : at'[c] # at[c] \/ message'[c] # message[c] =>
                              at[c] \notin Inside /\ at'[c] \notin Inside
  PROVE  Cells' /\ UNCHANGED <<MqContent, MqSending, MqReceiving>>
<1>1. CellTypes /\ Hands /\ Chains(Chain(link, free), Chain(link, head))
  BY DEF Cells
<1>2. CellTypes'
  BY <1>1 DEF CellTypes
<1>3. Hands'
  BY <1>1 DEF Hands, Inside
<1>4. Chains(Chain(link, free), Chain(link, head))'
  BY <1>1 DEF Chains
<1>5. MqContent' = MqContent
  BY DEF MqContent
<1>6. ASSUME NEW c \in Context
      PROVE  SendingOf(c)' = SendingOf(c) /\ ReceivingOf(c)' = ReceivingOf(c)
  BY DEF SendingOf, ReceivingOf, Inside
<1>7. MqSending' = MqSending /\ MqReceiving' = MqReceiving
  BY <1>6 DEF MqSending, SendingOf, MqReceiving, ReceivingOf
<1> QED
  BY <1>2, <1>3, <1>4, <1>5, <1>7 DEF Cells

(* The second section of sending puts the message, wherever it is linked.   *)
LEMMA PutStep ==
  ASSUME Waits, CellTypes, Hands, NEW F, NEW Q, Chains(F, Q),
         NEW c \in Context, at[c] \in {"mqFill", "mqUrgent"},
         CellTypes', UNCHANGED <<free, data>>,
         \A d \in Context : /\ at'[d] = IF d = c THEN "idle" ELSE at[d]
                            /\ cell'[d] = IF d = c THEN None ELSE cell[d]
                            /\ message'[d] = IF d = c THEN None ELSE message[d],
         \A m \in Cell \ (Members(Q) \union {cell[c]}) : link'[m] = link[m],
         NEW R, Linked(link', head', R), Members(R) = Members(Q) \union {cell[c]},
         Len(R) = Len(Q) + 1, mqEntry' = Len(R), tail' = R[Len(R)]
  PROVE  /\ Cells' /\ MqContent' = Contents(R, data)
         /\ data[cell[c]] # None /\ MqSending[c] = data[cell[c]]
         /\ MqSending' = [MqSending EXCEPT ![c] = None]
         /\ MqReceiving' = MqReceiving
         /\ Len(Q) < Cardinality(Cell)
<1> DEFINE m == cell[c]
<1>1. /\ at = [d \in Context |-> at[d]]
      /\ None \notin Cell /\ None \notin Message
  BY MessageQueueConstants DEF Waits
<1>2. /\ Linked(link, free, F) /\ Linked(link, head, Q)
      /\ F \in Seq(Cell) /\ Q \in Seq(Cell) /\ R \in Seq(Cell) /\ Distinct(R)
      /\ Members(F) \intersect Members(Q) = {}
      /\ \A d \in Context : cell[d] \notin Members(F) \union Members(Q)
  BY DEF Chains, Linked
<1>3. /\ m # None /\ m \in Cell /\ m \notin Members(F) \union Members(Q)
      /\ message[c] \in Message /\ data[m] = message[c]
  BY <1>1, <1>2 DEF Hands, CellTypes, Inside
<1>4. /\ at'[c] = "idle" /\ cell'[c] = None /\ message'[c] = None
      /\ \A d \in Context : d # c =>
           at'[d] = at[d] /\ cell'[d] = cell[d] /\ message'[d] = message[d]
  BY <1>1 DEF CellTypes
<1>5. \A d \in Context : d # c => cell[d] # m
  BY <1>3 DEF Hands
<1>6. CellTypes'
  OBVIOUS
<1>7. Hands'
  <2>1. \A d, e \in Context : cell'[d] # None /\ cell'[d] = cell'[e] => d = e
    BY <1>4 DEF Hands
  <2>2. ASSUME NEW d \in Context
        PROVE  /\ cell'[d] # None <=> at'[d] \in Inside
               /\ at'[d] = "mqFill" => link'[cell'[d]] = None
               /\ at'[d] \in {"mqFill", "mqUrgent"} =>
                    message'[d] \in Message /\ data'[cell'[d]] = message'[d]
               /\ at'[d] = "mqCopy" => data'[cell'[d]] \in Message
    <3>1. CASE d = c
      BY <1>4, <3>1 DEF Inside
    <3>2. CASE d # c
      <4>1. at[d] = "mqFill" => link'[cell[d]] = None
        <5>1. cell[d] # None => cell[d] \in Cell \ (Members(Q) \union {m})
          BY <1>2, <1>5, <3>2 DEF CellTypes
        <5> QED
          BY <5>1 DEF Hands, Inside
      <4> QED
        BY <1>4, <3>2, <4>1 DEF Hands
    <3> QED
      BY <3>1, <3>2
  <2> QED
    BY <2>1, <2>2 DEF Hands
<1>8. Linked(link', free', F)
  <2>1. Members(F) \subseteq Cell
    BY <1>2 DEF Members
  <2>2. \A x \in Members(F) : link'[x] = link[x]
    BY <1>2, <1>3, <2>1
  <2> QED
    BY <1>2, <2>2, LinkedElsewhere
<1>9. Chains(F, R)'
  <2>1. R # <<>>
    BY <1>2
  <2>2. \A x \in Members(R) : data'[x] \in Message
    BY <1>3 DEF Chains
  <2>3. \A d \in Context : cell'[d] \notin Members(F) \union Members(R)
    <3>1. None \notin Members(F) \union Members(R)
      BY <1>1, <1>2 DEF Members
    <3> QED
      BY <1>2, <1>4, <1>5, <3>1
  <2>4. ASSUME NEW x \in Cell
        PROVE  x \in Members(F) \union Members(R) \/ \E d \in Context : cell'[d] = x
    <3>1. x \in Members(F) \union Members(Q) \/ \E d \in Context : cell[d] = x
      BY DEF Chains
    <3> QED
      BY <1>4, <3>1
  <2> QED
    BY <1>2, <1>3, <1>8, <2>1, <2>2, <2>3, <2>4 DEF Chains
<1>10. Cells' /\ MqContent' = Contents(R, data)
  BY <1>6, <1>7, <1>9, CellsThen
<1>11. \A d \in Context : d # c =>
         SendingOf(d)' = SendingOf(d) /\ ReceivingOf(d)' = ReceivingOf(d)
  BY <1>4 DEF SendingOf, ReceivingOf
<1>12. /\ SendingOf(c) = data[m] /\ SendingOf(c)' = None
       /\ ReceivingOf(c) = None /\ ReceivingOf(c)' = None
  BY <1>3, <1>4 DEF SendingOf, ReceivingOf
<1>13. /\ MqSending[c] = data[m] /\ MqSending' = [MqSending EXCEPT ![c] = None]
       /\ MqReceiving' = MqReceiving
  BY <1>11, <1>12, WaysChange
<1>14. Len(R) <= Cardinality(Cell)
  BY <1>2, MessageQueueConstants, DistinctLength
<1>15. Len(Q) < Cardinality(Cell)
  BY <1>2, <1>14, MessageQueueConstants, FS_CardinalityType
<1> QED
  BY <1>1, <1>3, <1>10, <1>13, <1>15

(* Behind it in rt_mq_send_wait, in front of it in rt_mq_urgent.             *)
LEMMA LinkPuts ==
  ASSUME Waits, Cells, NEW c \in Context, MqLink(c) \/ MqLinkUrgent(c)
  PROVE  Cells' /\ QueueChannel!Next
<1>1. PICK F, Q : /\ Chains(F, Q) /\ F \in Seq(Cell) /\ Q \in Seq(Cell)
                  /\ Chain(link, head) = Q /\ MqContent = Contents(Q, data)
  BY CellsNow
<1> DEFINE m == cell[c]
<1>2. /\ CellTypes /\ Hands /\ Linked(link, head, Q)
      /\ tail = IF Q = <<>> THEN None ELSE Q[Len(Q)]
      /\ mqEntry = Len(Q) /\ Len(Q) \in Nat
      /\ m \notin Members(Q)
      /\ None \notin Cell
      /\ \A i \in 1 .. Len(Q) : Q[i] \in Cell /\ Q[i] \in Members(Q)
      /\ at = [d \in Context |-> at[d]]
  BY <1>1, MessageQueueConstants DEF Cells, Chains, Members, Waits
<1>3. /\ head = IF Q = <<>> THEN None ELSE Q[1]
      /\ Q = <<>> <=> head = None
      /\ Q = <<>> <=> tail = None
      /\ head \in Cell \union {None}
      /\ Q # <<>> => tail \in Cell /\ tail \in Members(Q)
  BY <1>1, <1>2 DEF Linked
<1>4. /\ at[c] \in {"mqFill", "mqUrgent"}
      /\ at' = [at EXCEPT ![c] = "idle"]
      /\ cell' = [cell EXCEPT ![c] = None]
      /\ message' = [message EXCEPT ![c] = None]
      /\ UNCHANGED <<free, data>>
      /\ mqEntry' = mqEntry + 1
  BY DEF MqLink, MqLinkUrgent, Return
<1>5. m \in Cell /\ (at[c] = "mqFill" => link[m] = None)
  BY <1>2, <1>4 DEF Hands, CellTypes, Inside
<1>6. link \in [Cell -> Cell \union {None}]
  BY <1>2 DEF CellTypes
<1>7. \A d \in Context : /\ at'[d] = IF d = c THEN "idle" ELSE at[d]
                         /\ cell'[d] = IF d = c THEN None ELSE cell[d]
                         /\ message'[d] = IF d = c THEN None ELSE message[d]
  BY <1>2, <1>4 DEF CellTypes
<1>8. ASSUME link' \in [Cell -> Cell \union {None}],
             \A x \in Cell \ (Members(Q) \union {m}) : link'[x] = link[x],
             NEW R, Linked(link', head', R), Members(R) = Members(Q) \union {m},
             Len(R) = Len(Q) + 1, tail' = R[Len(R)],
             Contents(R, data) \in {Append(MqContent, data[m]), <<data[m]>> \o MqContent}
      PROVE  Cells' /\ QueueChannel!Next
  <2>1. CellTypes'
    BY <1>2, <1>4, <1>8 DEF CellTypes
  <2>2. mqEntry' = Len(R)
    BY <1>2, <1>4, <1>8
  <2>3. /\ Cells' /\ MqContent' = Contents(R, data)
        /\ data[m] # None /\ MqSending[c] = data[m]
        /\ MqSending' = [MqSending EXCEPT ![c] = None]
        /\ MqReceiving' = MqReceiving
        /\ Len(Q) < Cardinality(Cell)
    <3>1. /\ Waits /\ CellTypes /\ Hands /\ Chains(F, Q) /\ at[c] \in {"mqFill", "mqUrgent"}
          /\ UNCHANGED <<free, data>>
      BY <1>1, <1>2, <1>4
    <3> QED
      BY <1>7, <1>8, <2>1, <2>2, <3>1, PutStep
  <2>4. Len(MqContent) = Len(Q)
    BY <1>1, ContentsChange
  <2>5. QueueChannel!AddLast(data[m]) \/ QueueChannel!AddFirst(data[m])
    BY <1>8, <2>3, <2>4 DEF QueueChannel!AddLast, QueueChannel!AddFirst
  <2>6. QueueChannel!Put(c)
    BY <2>3, <2>5 DEF QueueChannel!Put
  <2> QED
    BY <2>3, <2>6 DEF QueueChannel!Next
<1>9. CASE MqLink(c)
  <2> DEFINE R == Append(Q, m)
  <2>1. /\ link' = IF tail # None THEN [link EXCEPT ![tail] = m] ELSE link
        /\ head' = IF Q = <<>> THEN m ELSE head
        /\ tail' = m /\ at[c] = "mqFill"
    BY <1>2, <1>3, <1>9 DEF MqLink
  <2>2. \A x \in Cell : link'[x] = IF Q # <<>> /\ x = Q[Len(Q)] THEN m ELSE link[x]
    BY <1>2, <1>3, <1>5, <1>6, <2>1
  <2>3. Linked(link', head', R) /\ Members(R) = Members(Q) \union {m}
    <3>1. Linked(link, head, Q) /\ m \in Cell /\ m \notin Members(Q) /\ link[m] = None
      BY <1>2, <1>5, <2>1
    <3> HIDE DEF m
    <3>2. /\ Linked(link', IF Q = <<>> THEN m ELSE head, Append(Q, m))
          /\ Members(Append(Q, m)) = Members(Q) \union {m}
      BY <2>2, <3>1, LinkedEnd
    <3> QED
      BY <2>1, <3>2
  <2>4. Len(R) = Len(Q) + 1 /\ R[Len(R)] = m
    BY <1>1, <1>5
  <2>5. Contents(R, data) = Append(MqContent, data[m])
    BY <1>1, <1>5, ContentsChange
  <2>6. link' \in [Cell -> Cell \union {None}]
    BY <1>3, <1>5, <1>6, <2>1
  <2>7. \A x \in Cell \ (Members(Q) \union {m}) : link'[x] = link[x]
    BY <1>2, <1>3, <2>2
  <2> HIDE DEF R, m
  <2> QED
    BY <1>8, <2>1, <2>3, <2>4, <2>5, <2>6, <2>7
<1>10. CASE MqLinkUrgent(c)
  <2> DEFINE R == <<m>> \o Q
  <2>1. /\ link' = [link EXCEPT ![m] = head]
        /\ head' = m
        /\ tail' = IF Q = <<>> THEN m ELSE tail
    BY <1>3, <1>10 DEF MqLinkUrgent
  <2>2. \A x \in Cell : link'[x] = IF x = m THEN head ELSE link[x]
    BY <1>5, <1>6, <2>1
  <2>3. Linked(link', head', R) /\ Members(R) = Members(Q) \union {m}
    <3>1. Linked(link, head, Q) /\ m \in Cell /\ m \notin Members(Q)
      BY <1>2, <1>5
    <3> HIDE DEF m
    <3>2. /\ Linked(link', m, <<m>> \o Q)
          /\ Members(<<m>> \o Q) = Members(Q) \union {m}
      BY <2>2, <3>1, LinkedFront
    <3> QED
      BY <2>1, <3>2
  <2>4. Len(R) = Len(Q) + 1 /\ R[Len(R)] = tail'
    <3>1. /\ Len(R) = Len(Q) + 1 /\ R[1] = m
          /\ \A i \in 1 .. Len(Q) : R[i + 1] = Q[i]
      BY <1>1, <1>5
    <3>2. Q # <<>> => Len(Q) \in 1 .. Len(Q)
      BY <1>1
    <3>3. Q = <<>> => Len(Q) = 0
      OBVIOUS
    <3> HIDE DEF R
    <3> QED
      BY <1>2, <2>1, <3>1, <3>2, <3>3
  <2>5. Contents(R, data) = <<data[m]>> \o MqContent
    BY <1>1, <1>5, ContentsChange
  <2>6. link' \in [Cell -> Cell \union {None}]
    BY <1>3, <1>5, <1>6, <2>1
  <2>7. \A x \in Cell \ (Members(Q) \union {m}) : link'[x] = link[x]
    BY <2>2
  <2> HIDE DEF R, m
  <2> QED
    BY <1>8, <2>3, <2>4, <2>5, <2>6, <2>7
<1> QED
  BY <1>9, <1>10

(* The first section of receiving gets the first message.                   *)
LEMMA UnlinkGets ==
  ASSUME Waits, Cells, NEW c \in Context, MqUnlink(c)
  PROVE  Cells' /\ QueueChannel!Next
<1>1. PICK F, Q : /\ Chains(F, Q) /\ F \in Seq(Cell) /\ Q \in Seq(Cell)
                  /\ Chain(link, head) = Q /\ MqContent = Contents(Q, data)
  BY CellsNow
<1> DEFINE R == Tail(Q)
<1>2. /\ CellTypes /\ Hands /\ Linked(link, free, F) /\ Linked(link, head, Q)
      /\ tail = IF Q = <<>> THEN None ELSE Q[Len(Q)]
      /\ mqEntry = Len(Q) /\ Len(Q) \in Nat
      /\ Members(F) \intersect Members(Q) = {}
      /\ \A d \in Context : cell[d] \notin Members(F) \union Members(Q)
      /\ \A m \in Members(Q) : data[m] \in Message
      /\ None \notin Cell /\ None \notin Message
      /\ at = [d \in Context |-> at[d]]
  BY <1>1, MessageQueueConstants DEF Cells, Chains, Waits
<1>3. /\ at[c] \in {"idle", "mqRecv"}
      /\ mqEntry > 0
      /\ cell' = [cell EXCEPT ![c] = head]
      /\ head' = link[head]
      /\ tail' = IF tail = head THEN None ELSE tail
      /\ mqEntry' = mqEntry - 1
      /\ at' = [at EXCEPT ![c] = "mqCopy"]
      /\ UNCHANGED <<free, link, data, message>>
  BY DEF MqUnlink, Idle, Woken, Goto
<1>4. Q # <<>> /\ head = Q[1] /\ Len(Q) > 0
  BY <1>1, <1>2, <1>3 DEF Linked
<1>5. /\ Linked(link, head', R)
      /\ head \in Cell /\ head \in Members(Q)
      /\ Members(R) = Members(Q) \ {head}
  BY <1>2, <1>3, <1>4, LinkedTail
<1>6. /\ at'[c] = "mqCopy" /\ cell'[c] = head
      /\ \A d \in Context : d # c => at'[d] = at[d] /\ cell'[d] = cell[d]
      /\ \A d \in Context : cell[d] # head
  BY <1>2, <1>3, <1>5 DEF CellTypes
<1>7. CellTypes'
  BY <1>2, <1>3, <1>5 DEF CellTypes
<1>8. Hands'
  <2>1. \A d, e \in Context : cell'[d] # None /\ cell'[d] = cell'[e] => d = e
    BY <1>2, <1>6 DEF Hands
  <2>2. ASSUME NEW d \in Context
        PROVE  /\ cell'[d] # None <=> at'[d] \in Inside
               /\ at'[d] = "mqFill" => link'[cell'[d]] = None
               /\ at'[d] \in {"mqFill", "mqUrgent"} =>
                    message'[d] \in Message /\ data'[cell'[d]] = message'[d]
               /\ at'[d] = "mqCopy" => data'[cell'[d]] \in Message
    <3>1. CASE d = c
      BY <1>2, <1>3, <1>5, <1>6, <3>1 DEF Inside
    <3>2. CASE d # c
      BY <1>2, <1>3, <1>6, <3>2 DEF Hands
    <3> QED
      BY <3>1, <3>2
  <2> QED
    BY <2>1, <2>2 DEF Hands
<1>9. /\ R \in Seq(Cell) /\ Len(R) = Len(Q) - 1
      /\ \A i \in 1 .. Len(Q) - 1 : R[i] = Q[i + 1]
  BY <1>1, <1>4
<1> HIDE DEF R
<1>10. tail' = IF R = <<>> THEN None ELSE R[Len(R)]
  <2>1. CASE Len(Q) = 1
    <3>1. R = <<>> /\ tail = head
      BY <1>2, <1>4, <1>9, <2>1
    <3> QED
      BY <1>3, <3>1
  <2>2. CASE Len(Q) # 1
    <3>1. Len(R) \in 1 .. Len(Q) - 1 /\ Len(R) + 1 = Len(Q)
      BY <1>2, <1>4, <1>9, <2>2
    <3>2. R # <<>> /\ R[Len(R)] = Q[Len(Q)]
      BY <1>9, <3>1
    <3>3. 1 \in DOMAIN Q /\ Len(Q) \in DOMAIN Q
      BY <1>1, <1>4
    <3>4. Q[Len(Q)] # Q[1]
      BY <1>2, <2>2, <3>3 DEF Linked, Distinct
    <3> QED
      BY <1>2, <1>3, <1>4, <3>2, <3>4
  <2> QED
    BY <2>1, <2>2
<1>11. Chains(F, R)'
  <2>1. \A d \in Context : cell'[d] \notin Members(F) \union Members(R)
    BY <1>2, <1>5, <1>6
  <2>2. ASSUME NEW x \in Cell
        PROVE  x \in Members(F) \union Members(R) \/ \E d \in Context : cell'[d] = x
    <3>1. x \in Members(F) \union Members(Q) \/ \E d \in Context : cell[d] = x
      BY <1>1 DEF Chains
    <3>2. cell[c] = None
      BY <1>2, <1>3 DEF Hands, Inside
    <3> QED
      BY <1>2, <1>5, <1>6, <3>1, <3>2
  <2> QED
    BY <1>2, <1>3, <1>5, <1>9, <1>10, <2>1, <2>2 DEF Chains
<1>12. Cells' /\ MqContent' = Contents(R, data')
  BY <1>7, <1>8, <1>11, CellsThen
<1>13. /\ MqContent # <<>> /\ Head(MqContent) = data[head]
       /\ MqContent' = Tail(MqContent)
  <2>1. Head(Q) = head
    BY <1>4
  <2> QED
    BY <1>1, <1>3, <1>4, <1>12, <2>1, ContentsChange DEF R
<1>14. \A d \in Context : d # c =>
         SendingOf(d)' = SendingOf(d) /\ ReceivingOf(d)' = ReceivingOf(d)
  BY <1>3, <1>6 DEF SendingOf, ReceivingOf
<1>15. /\ SendingOf(c) = None /\ SendingOf(c)' = None
       /\ ReceivingOf(c) = None /\ ReceivingOf(c)' = data[head]
  BY <1>3, <1>6 DEF SendingOf, ReceivingOf
<1>16. /\ MqSending' = MqSending /\ MqReceiving[c] = None
       /\ MqReceiving' = [MqReceiving EXCEPT ![c] = data[head]]
  BY <1>14, <1>15, WaysChange
<1>17. QueueChannel!Get(c)
  BY <1>13, <1>16 DEF QueueChannel!Get, QueueChannel!Remove
<1> QED
  BY <1>12, <1>17 DEF QueueChannel!Next

(* The second section of receiving delivers it.                             *)
LEMMA FreeDelivers ==
  ASSUME Waits, Cells, NEW c \in Context, MqFree(c)
  PROVE  Cells' /\ QueueChannel!Next
<1>1. PICK F, Q : /\ Chains(F, Q) /\ F \in Seq(Cell) /\ Q \in Seq(Cell)
                  /\ Chain(link, head) = Q /\ MqContent = Contents(Q, data)
  BY CellsNow
<1> DEFINE m == cell[c]
<1>2. /\ CellTypes /\ Hands /\ Linked(link, free, F) /\ Linked(link, head, Q)
      /\ Members(F) \intersect Members(Q) = {}
      /\ \A d \in Context : cell[d] \notin Members(F) \union Members(Q)
      /\ None \notin Cell /\ None \notin Message
      /\ at = [d \in Context |-> at[d]]
      /\ free \in Cell \union {None}
  BY <1>1, MessageQueueConstants DEF Cells, Chains, Waits, Linked
<1>3. /\ at[c] = "mqCopy"
      /\ link' = [link EXCEPT ![m] = free]
      /\ free' = m
      /\ cell' = [cell EXCEPT ![c] = None]
      /\ at' = [at EXCEPT ![c] = "idle"]
      /\ UNCHANGED <<head, tail, data, mqEntry, message>>
  BY DEF MqFree, Return
<1>4. /\ m \in Cell /\ m # None /\ m \notin Members(F) \union Members(Q)
      /\ data[m] \in Message
  BY <1>2, <1>3 DEF Hands, CellTypes, Inside
<1>5. /\ at'[c] = "idle" /\ cell'[c] = None
      /\ \A d \in Context : d # c => at'[d] = at[d] /\ cell'[d] = cell[d] /\ cell[d] # m
  BY <1>2, <1>3, <1>4 DEF CellTypes, Hands
<1>6. \A x \in Cell : link'[x] = IF x = m THEN free ELSE link[x]
  BY <1>2, <1>3, <1>4 DEF CellTypes
<1>7. CellTypes'
  BY <1>2, <1>3, <1>4 DEF CellTypes
<1>8. Hands'
  <2>1. \A d, e \in Context : cell'[d] # None /\ cell'[d] = cell'[e] => d = e
    BY <1>2, <1>5 DEF Hands
  <2>2. ASSUME NEW d \in Context
        PROVE  /\ cell'[d] # None <=> at'[d] \in Inside
               /\ at'[d] = "mqFill" => link'[cell'[d]] = None
               /\ at'[d] \in {"mqFill", "mqUrgent"} =>
                    message'[d] \in Message /\ data'[cell'[d]] = message'[d]
               /\ at'[d] = "mqCopy" => data'[cell'[d]] \in Message
    <3>1. CASE d = c
      BY <1>5, <3>1 DEF Inside
    <3>2. CASE d # c
      <4>1. at[d] = "mqFill" => link'[cell[d]] = None
        <5>1. at[d] = "mqFill" => cell[d] \in Cell /\ link[cell[d]] = None
          BY <1>2 DEF Hands, CellTypes, Inside
        <5> QED
          BY <1>5, <1>6, <3>2, <5>1
      <4> QED
        BY <1>2, <1>3, <1>5, <3>2, <4>1 DEF Hands
    <3> QED
      BY <3>1, <3>2
  <2> QED
    BY <2>1, <2>2 DEF Hands
<1>9. PICK R : Linked(link', m, R) /\ Members(R) = Members(F) \union {m}
  <2>1. Linked(link, free, F) /\ m \in Cell /\ m \notin Members(F)
    BY <1>2, <1>4
  <2> HIDE DEF m
  <2>2. /\ Linked(link', m, <<m>> \o F)
        /\ Members(<<m>> \o F) = Members(F) \union {m}
    BY <1>6, <2>1, LinkedFront
  <2> QED
    BY <2>2
<1>10. Linked(link', head', Q)
  <2>1. Members(Q) \subseteq Cell
    BY <1>1 DEF Members
  <2>2. \A x \in Members(Q) : link'[x] = link[x]
    BY <1>4, <1>6, <2>1
  <2> QED
    BY <1>2, <1>3, <2>2, LinkedElsewhere
<1>11. Chains(R, Q)'
  <2>1. \A d \in Context : cell'[d] \notin Members(R) \union Members(Q)
    <3>1. None \notin Members(R) \union Members(Q)
      BY <1>1, <1>2, <1>9 DEF Members, Linked
    <3> QED
      BY <1>2, <1>5, <1>9, <3>1
  <2>2. ASSUME NEW x \in Cell
        PROVE  x \in Members(R) \union Members(Q) \/ \E d \in Context : cell'[d] = x
    <3>1. x \in Members(F) \union Members(Q) \/ \E d \in Context : cell[d] = x
      BY <1>1 DEF Chains
    <3> QED
      BY <1>5, <1>9, <3>1
  <2>3. Members(R) \intersect Members(Q) = {}
    BY <1>2, <1>4, <1>9
  <2>4. /\ tail' = IF Q = <<>> THEN None ELSE Q[Len(Q)]
        /\ mqEntry' = Len(Q)
        /\ \A x \in Members(Q) : data'[x] \in Message
        /\ free' = m
    BY <1>1, <1>3 DEF Chains
  <2> QED
    BY <1>9, <1>10, <2>1, <2>2, <2>3, <2>4 DEF Chains
<1>12. Cells' /\ MqContent' = Contents(Q, data')
  BY <1>7, <1>8, <1>11, CellsThen
<1>13. MqContent' = MqContent
  BY <1>1, <1>3, <1>12
<1>14. \A d \in Context : d # c =>
         SendingOf(d)' = SendingOf(d) /\ ReceivingOf(d)' = ReceivingOf(d)
  BY <1>3, <1>5 DEF SendingOf, ReceivingOf
<1>15. /\ SendingOf(c) = None /\ SendingOf(c)' = None
       /\ ReceivingOf(c) = data[m] /\ ReceivingOf(c)' = None
  BY <1>3, <1>5 DEF SendingOf, ReceivingOf
<1>16. /\ MqSending' = MqSending /\ MqReceiving[c] # None
       /\ MqReceiving' = [MqReceiving EXCEPT ![c] = None]
  <2>1. data[m] # None
    BY <1>2, <1>4
  <2> QED
    BY <1>14, <1>15, <2>1, WaysChange
<1>17. QueueChannel!Deliver(c)
  BY <1>13, <1>16 DEF QueueChannel!Deliver
<1> QED
  BY <1>12, <1>17 DEF QueueChannel!Next

(* RT_IPC_CMD_RESET clears the channel, whoever is in between.              *)
LEMMA ResetClears ==
  ASSUME Cells, NEW c \in Context, MqReset(c)
  PROVE  Cells' /\ QueueChannel!Next
<1>1. PICK F, Q : /\ Chains(F, Q) /\ F \in Seq(Cell) /\ Q \in Seq(Cell)
                  /\ Chain(link, head) = Q /\ MqContent = Contents(Q, data)
  BY CellsNow
<1>2. /\ CellTypes /\ Hands /\ Linked(link, free, F) /\ Linked(link, head, Q)
      /\ tail = IF Q = <<>> THEN None ELSE Q[Len(Q)]
      /\ Members(F) \intersect Members(Q) = {}
      /\ \A d \in Context : cell[d] \notin Members(F) \union Members(Q)
      /\ None \notin Cell
  BY <1>1, MessageQueueConstants DEF Cells, Chains
<1>3. ToSet(Q) = Members(Q)
  BY DEF ToSet, Members
<1>4. /\ link' = Reversed(link, free, Q)
      /\ free' = IF Q = <<>> THEN free ELSE Q[Len(Q)]
      /\ head' = None
      /\ tail' = IF tail \in Members(Q) THEN None ELSE tail
      /\ mqEntry' = 0
      /\ UNCHANGED <<data, cell, message, at>>
  BY <1>1, <1>3 DEF MqReset, Reversed, Last
<1>5. link \in [Cell -> Cell \union {None}]
  BY <1>2 DEF CellTypes
<1>6. PICK R : Linked(link', free', R) /\ Members(R) = Members(Q) \union Members(F)
  <2>1. Members(Q) \intersect Members(F) = {}
    BY <1>2
  <2> QED
    BY <1>2, <1>4, <1>5, <2>1, LinkedReversed
<1>7. \A x \in Cell \ Members(Q) : link'[x] = link[x]
  BY <1>4 DEF Reversed
<1>8. link' \in [Cell -> Cell \union {None}]
  <2>1. \A x \in Members(R) : link'[x] \in Cell \union {None}
    BY <1>6 DEF Linked, Members
  <2>2. \A x \in Cell : link'[x] \in Cell \union {None}
    BY <1>5, <1>6, <1>7, <2>1
  <2>3. link' = [x \in Cell |-> link'[x]]
    BY <1>4 DEF Reversed
  <2> QED
    BY <2>2, <2>3
<1>9. CellTypes'
  BY <1>2, <1>4, <1>8 DEF CellTypes
<1>10. Hands'
  <2>1. ASSUME NEW d \in Context, at[d] = "mqFill" PROVE link'[cell[d]] = None
    <3>1. cell[d] \in Cell \ Members(Q) /\ link[cell[d]] = None
      BY <1>2, <2>1 DEF Hands, CellTypes, Inside
    <3> QED
      BY <1>7, <3>1
  <2> QED
    BY <1>2, <1>4, <2>1 DEF Hands
<1>11. tail' = None
  <2>1. Q # <<>> => Q[Len(Q)] \in Members(Q)
    BY <1>1 DEF Members
  <2> QED
    BY <1>2, <1>4, <2>1
<1>12. Linked(link', head', <<>>) /\ Members(<<>>) = {}
  BY <1>4 DEF Linked, Members, Distinct
<1>13. Chains(R, <<>>)'
  <2>1. Len(<<>>) = 0
    OBVIOUS
  <2>2. \A x \in Cell : x \in Members(R) \/ \E d \in Context : cell'[d] = x
    BY <1>1, <1>4, <1>6 DEF Chains
  <2>3. \A d \in Context : cell'[d] \notin Members(R)
    BY <1>2, <1>4, <1>6
  <2> QED
    BY <1>4, <1>6, <1>11, <1>12, <2>1, <2>2, <2>3 DEF Chains
<1>14. Cells' /\ MqContent' = Contents(<<>>, data')
  BY <1>9, <1>10, <1>13, CellsThen
<1>15. MqContent' = <<>>
  BY <1>14 DEF Contents
<1>16. UNCHANGED <<MqSending, MqReceiving>>
  BY <1>4 DEF MqSending, MqReceiving
<1>17. QueueChannel!Clear
  BY <1>15, <1>16 DEF QueueChannel!Clear
<1> QED
  BY <1>14, <1>17 DEF QueueChannel!Next

-----------------------------------------------------------------------------
(* Every step *)

(* The calls on the queue change no other object's callers.                 *)
LEMMA QueueStays ==
  ASSUME Waits, Typed, Errors, Outside, object = "queue", MessageQueueNext,
         object' = object
  PROVE  Outside' /\ Errors'
<1>0. /\ "mqRecv" \in List /\ "mqSend" \in List /\ {"mqRecv", "mqSend"} \in SUBSET List
      /\ Thread \subseteq Context
  BY DEF List, Context
<1>1. ASSUME NEW c \in Context,
             \/ \E v \in Message, urgent \in BOOLEAN : MqTake(c, v, urgent)
             \/ MqUnlink(c)
      PROVE  Outside' /\ Errors'
  <2>1. error' = error /\ \E to : at' = [at EXCEPT ![c] = to]
    BY <1>1 DEF MqTake, MqUnlink, Goto, threadVars
  <2>2. c \in Thread => at[c] \notin List \/ error[c] = "EOK"
    BY <1>1 DEF MqTake, MqUnlink, Sender, Idle, Woken, List
  <2> QED
    BY <2>1, <2>2, GoStays
<1>2. ASSUME NEW c \in Context, MqLink(c) \/ MqLinkUrgent(c) \/ MqFree(c)
      PROVE  Outside' /\ Errors'
  <2>1. /\ at' = [at EXCEPT ![c] = "idle"] /\ at[c] \notin List
        /\ ResumeFirst("mqRecv") \/ ResumeFirst("mqSend")
    BY <1>2 DEF MqLink, MqLinkUrgent, MqFree, Return, List
  <2>2. \A t \in Thread : error'[t] = error[t]
    BY <2>1, FirstKeepsErrors
  <2> QED
    BY <2>1, <2>2, GoStays
<1>3. ASSUME NEW c \in Context, MqReset(c) PROVE Outside' /\ Errors'
  BY <1>0, <1>3, AllInLists, RestStays DEF MqReset
<1>4. ASSUME NEW t \in Thread, NEW lim \in Limits,
             \/ \E v \in Message : MqSendWait(t, v, lim)
             \/ MqRecvWait(t, lim)
      PROVE  Outside' /\ Errors'
  <2>1. \E l \in List : \E n, k : Wait(t, l, n, k)
    BY <1>0, <1>4 DEF MqSendWait, MqRecvWait
  <2> QED
    BY <2>1, WaitStays
<1>5. ASSUME NEW t \in Thread, MqTooLate(t) PROVE Outside' /\ Errors'
  <2>1. at' = [at EXCEPT ![t] = "idle"] /\ error' = error /\ error[t] = "EOK"
    BY <1>5 DEF MqTooLate, Return, Woken, threadVars
  <2> QED
    BY <1>0, <2>1, GoStays
<1> QED
  BY <1>1, <1>2, <1>3, <1>4, <1>5 DEF MessageQueueNext

\* A step of the channel, or none.
ChannelStep == QueueChannel!Next \/ UNCHANGED <<MqContent, MqSending, MqReceiving>>

(* Each of them is a step of the channel or none.                           *)
LEMMA QueueUses ==
  ASSUME Waits, Cells, MessageQueueNext PROVE Cells' /\ ChannelStep
<1>1. at = [c \in Context |-> at[c]] /\ message \in [Context -> Message \union {None}]
      /\ Thread \subseteq Context
  BY DEF Waits, Cells, CellTypes, Context
<1>2. ASSUME NEW c \in Context,
             \/ \E v \in Message, urgent \in BOOLEAN : MqTake(c, v, urgent)
             \/ MqLink(c) \/ MqLinkUrgent(c) \/ MqUnlink(c) \/ MqFree(c) \/ MqReset(c)
      PROVE  Cells' /\ ChannelStep
  BY <1>2, TakeOffers, LinkPuts, UnlinkGets, FreeDelivers, ResetClears DEF ChannelStep
<1>3. ASSUME NEW t \in Thread, NEW lim \in Limits, NEW v \in Message,
             MqSendWait(t, v, lim)
      PROVE  Cells' /\ ChannelStep
  <2>1. /\ message' = [message EXCEPT ![t] = v] /\ at' = [at EXCEPT ![t] = "mqSend"]
        /\ at[t] \in {"idle", "mqSend"}
        /\ UNCHANGED <<head, tail, free, link, data, mqEntry, cell>>
    BY <1>3 DEF MqSendWait, Sender, Idle, Woken, Wait
  <2>2. /\ message' \in [Context -> Message \union {None}]
        /\ \A c \in Context : at'[c] # at[c] \/ message'[c] # message[c] =>
                                at[c] \notin Inside /\ at'[c] \notin Inside
    BY <1>1, <2>1 DEF Inside
  <2> QED
    BY <2>1, <2>2, AsideStep DEF ChannelStep
<1>4. ASSUME NEW t \in Thread, NEW lim \in Limits, MqRecvWait(t, lim)
      PROVE  Cells' /\ ChannelStep
  <2>1. /\ at' = [at EXCEPT ![t] = "mqRecv"]
        /\ at[t] \in {"idle", "mqRecv"}
        /\ UNCHANGED <<head, tail, free, link, data, mqEntry, cell, message>>
    BY <1>4 DEF MqRecvWait, Idle, Woken, Wait, messageQueueVars
  <2>2. /\ message' \in [Context -> Message \union {None}]
        /\ \A c \in Context : at'[c] # at[c] \/ message'[c] # message[c] =>
                                at[c] \notin Inside /\ at'[c] \notin Inside
    BY <1>1, <2>1 DEF Inside
  <2> QED
    BY <2>1, <2>2, AsideStep DEF ChannelStep
<1>5. ASSUME NEW t \in Thread, MqTooLate(t) PROVE Cells' /\ ChannelStep
  <2>1. /\ message' = [message EXCEPT ![t] = None] /\ at' = [at EXCEPT ![t] = "idle"]
        /\ at[t] \in {"mqRecv", "mqSend"}
        /\ UNCHANGED <<head, tail, free, link, data, mqEntry, cell>>
    BY <1>5 DEF MqTooLate, Return, Woken
  <2>2. /\ message' \in [Context -> Message \union {None}]
        /\ \A c \in Context : at'[c] # at[c] \/ message'[c] # message[c] =>
                                at[c] \notin Inside /\ at'[c] \notin Inside
    BY <1>1, <2>1 DEF Inside
  <2> QED
    BY <2>1, <2>2, AsideStep DEF ChannelStep
<1> QED
  BY <1>2, <1>3, <1>4, <1>5 DEF MessageQueueNext

(* A new queue: every cell is in the free list.                             *)
LEMMA FreshCells ==
  ASSUME NEW h, NEW t, NEW f, NEW ln, NEW d, NEW entry,
         MessageQueueFresh(h, t, f, ln, d, entry)
  PROVE  /\ h = None /\ t = None /\ entry = 0 /\ d = [m \in Cell |-> None]
         /\ ln \in [Cell -> Cell \union {None}]
         /\ \E s : Linked(ln, f, s) /\ Members(s) = Cell
<1> DEFINE s == CHOOSE s \in SetToSeqs(Cell) : TRUE
           place(m) == CHOOSE j \in DOMAIN s : s[j] = m
           n == Len(s)
<1>1. s \in Seq(Cell) /\ Distinct(s) /\ Members(s) = Cell
  BY MessageQueueConstants, OrderExists
<1>2. /\ h = None /\ t = None /\ entry = 0 /\ d = [m \in Cell |-> None]
      /\ f = s[1]
      /\ ln = [m \in Cell |-> IF place(m) = Len(s) THEN None ELSE s[place(m) + 1]]
  BY DEF MessageQueueFresh
<1> HIDE DEF s
<1>3. n \in Nat /\ DOMAIN s = 1 .. n /\ \A i \in 1 .. n : s[i] \in Cell
  BY <1>1
<1>4. \A m \in Cell : place(m) \in 1 .. n /\ s[place(m)] = m
  BY <1>1, <1>3 DEF Members
<1>5. \A i \in 1 .. n : place(s[i]) = i
  BY <1>1, <1>3, <1>4 DEF Distinct
<1>6. s # <<>>
  BY <1>1, MessageQueueConstants DEF Members
<1> HIDE DEF place
<1>7. \A i \in 1 .. n : ln[s[i]] = IF i = n THEN None ELSE s[i + 1]
  BY <1>2, <1>3, <1>5
<1>8. ln \in [Cell -> Cell \union {None}]
  <2>1. ASSUME NEW m \in Cell, place(m) # n PROVE s[place(m) + 1] \in Cell
    BY <1>3, <1>4, <2>1
  <2> QED
    BY <1>2, <2>1
<1>9. Linked(ln, f, s)
  BY <1>1, <1>2, <1>6, <1>7 DEF Linked
<1> QED
  BY <1>1, <1>2, <1>8, <1>9

(* No cell is in hand and no message there.                                 *)
LEMMA NewChains ==
  ASSUME NEW F, Linked(link, free, F), Members(F) = Cell,
         head = None, tail = None, mqEntry = 0,
         \A c \in Context : cell[c] = None
  PROVE  Chains(F, <<>>)
<1>1. /\ Linked(link, head, <<>>) /\ Members(<<>>) = {} /\ Len(<<>>) = 0
      /\ None \notin Cell
  BY MessageQueueConstants DEF Linked, Members, Distinct
<1> QED
  BY <1>1 DEF Chains

(* At the start and behind rt_mq_init the invariant holds and the channel is*)
(* empty.                                                                   *)
LEMMA InitQInv == ASSUME Init PROVE QInv /\ QueueChannel!Init
<1>1. /\ MessageQueueFresh(head, tail, free, link, data, mqEntry)
      /\ cell = [c \in Context |-> None] /\ message = [c \in Context |-> None]
      /\ at = [c \in Context |-> "idle"] /\ error = [t \in Thread |-> "EOK"]
  BY DEF Init, WaitingInit
<1>2. /\ head = None /\ tail = None /\ mqEntry = 0 /\ data = [m \in Cell |-> None]
      /\ link \in [Cell -> Cell \union {None}]
  BY <1>1, FreshCells
<1>3. PICK F : Linked(link, free, F) /\ Members(F) = Cell
  BY <1>1, FreshCells
<1>4. Chains(F, <<>>)
  BY <1>1, <1>2, <1>3, NewChains
<1>5. Chain(link, free) = F /\ Chain(link, head) = <<>>
  BY <1>2, <1>4, ChainIsLinked DEF Chains
<1>6. CellTypes /\ Hands
  BY <1>1, <1>2 DEF CellTypes, Hands, Inside
<1>7. Cells
  BY <1>4, <1>5, <1>6 DEF Cells
<1>8. Outside /\ Errors
  BY <1>1 DEF Outside, Errors, Inside, Context
<1>9. MqContent = <<>>
  BY <1>5 DEF MqContent
<1>10. /\ MqSending = [c \in Context |-> None]
       /\ MqReceiving = [c \in Context |-> None]
  BY <1>1 DEF MqSending, MqReceiving
<1> QED
  BY <1>7, <1>8, <1>9, <1>10 DEF QInv, QueueChannel!Init

(* Another object is used.                                                  *)
LEMMA OtherUses ==
  ASSUME Waits, QInv, object # "queue", UNCHANGED messageQueueVars, Outside',
         object' = object
  PROVE  Cells' /\ ChannelStep
<1>1. Cells /\ message' \in [Context -> Message \union {None}]
  BY DEF QInv, Cells, CellTypes, messageQueueVars
<1>2. \A c \in Context : at[c] \notin Inside /\ at'[c] \notin Inside
  BY DEF QInv, Outside
<1> QED
  BY <1>1, <1>2, AsideStep DEF ChannelStep, messageQueueVars

(* A thread that is not in the way of an end is outside or in a list.       *)
LEMMA HarmlessPlaces ==
  ASSUME Waits, Errors, NEW d \in Context, Harmless(d)
  PROVE  at[d] = "idle" \/ (d \in Thread /\ at[d] \in List)
BY DEF Harmless, Waits, Errors, Context

(* The thread that ends an object is alone with it.                         *)
LEMMA EndAlone ==
  ASSUME IInv, NEW t \in Thread, EndStep(t)
  PROVE  /\ at[t] \in {"idle"} \union Ending
         /\ \A d \in Context \ {t} : Harmless(d)
<1>0. t \in Context /\ Thread \intersect Isr = {}
  BY WaitingConstants DEF Context
<1>1. CASE Detach(t)
  BY <1>0, <1>1 DEF Detach, Idle, Open, NoCallInside, Harmless, Context
<1>2. CASE ~Detach(t)
  <2>1. at[t] \in Ending
    BY <1>2 DEF EndStep, EndTest, EndWake, EndFail, EndOver, Ending
  <2> QED
    BY <1>0, <2>1 DEF IInv, Ends
<1> QED
  BY <1>1, <1>2

(* It moves in its end, and nobody works on the object meanwhile.           *)
LEMMA EndMoves ==
  ASSUME IInv, Errors, NEW t \in Thread, EndStep(t)
  PROVE  /\ UNCHANGED <<mailboxVars, messageQueueVars, memPoolVars>>
         /\ at[t] \in {"idle"} \union Ending /\ at'[t] \in {"idle"} \union Ending
         /\ \A c \in Context \ {t} :
              /\ at'[c] = at[c]
              /\ at[c] = "idle" \/ (c \in Thread /\ at[c] \in List)
         /\ \A u \in Thread : error'[u] # "EOK" =>
              error'[u] = error[u] \/ (u # t /\ at[u] \in List)
<1>0. Waits /\ at = [c \in Context |-> at[c]] /\ t \in Context
  BY DEF IInv, Waits, Context
<1>1. UNCHANGED <<mailboxVars, messageQueueVars, memPoolVars>>
  BY DEF EndStep, Detach, EndTest, EndWake, EndFail, EndOver, objectVars
<1>2. at[t] \in {"idle"} \union Ending /\ \A d \in Context \ {t} : Harmless(d)
  BY EndAlone
<1>3. \E to \in {"idle"} \union Ending : at' = [at EXCEPT ![t] = to]
  BY DEF EndStep, Detach, EndTest, EndWake, EndFail, EndOver, Goto, Return, Ending
<1>4. at'[t] \in {"idle"} \union Ending /\ \A c \in Context \ {t} : at'[c] = at[c]
  BY <1>0, <1>3
<1>5. \A c \in Context \ {t} : at[c] = "idle" \/ (c \in Thread /\ at[c] \in List)
  BY <1>0, <1>2, HarmlessPlaces
<1>6. ASSUME NEW u \in Thread, error'[u] # "EOK"
      PROVE  error'[u] = error[u] \/ (u # t /\ at[u] \in List)
  <2>1. CASE EndWake(t)
    <3> DEFINE k == EndList(t)
               h == Head(waiters[k])
    <3>1. k \in List
      BY <2>1, EndHasList DEF EndWake
    <3>2. waiters[k] \in Seq(Thread) /\ waiters[k] # <<>>
      BY <1>0, <2>1, <3>1 DEF Waits, EndWake
    <3>3. h \in Members(waiters[k])
      BY <3>2 DEF Members
    <3>4. at[h] = k
      BY <1>0, <3>1, <3>3 DEF Waits
    <3>5. error' = [v \in Thread |-> IF v \in {h} THEN "ERROR" ELSE error[v]]
      BY <2>1 DEF EndWake, Resume
    <3> HIDE DEF h, k
    <3>6. u # h => error'[u] = error[u]
      BY <3>5
    <3>7. k # "idle" /\ k \notin Ending
      BY <3>1 DEF List, Ending
    <3> QED
      BY <1>2, <3>1, <3>4, <3>6, <3>7
  <2>2. CASE ~EndWake(t)
    BY <2>2 DEF EndStep, Detach, EndTest, EndFail, EndOver, threadVars
  <2> QED
    BY <2>1, <2>2
<1> QED
  BY <1>1, <1>2, <1>4, <1>5, <1>6

(* A timeout, a call that returns an error, the end of the object.          *)
LEMMA ThreadSteps ==
  ASSUME IInv, QInv, NEW t \in Thread, Expire(t) \/ ReturnError(t) \/ EndStep(t)
  PROVE  QInv' /\ ChannelStep
<1>1. /\ Waits /\ Typed /\ Errors /\ Outside /\ Cells
      /\ at = [c \in Context |-> at[c]] /\ message \in [Context -> Message \union {None}]
      /\ Thread \subseteq Context /\ Thread \intersect Isr = {}
  BY WaitingConstants DEF IInv, QInv, Waits, Cells, CellTypes, Context
<1>2. CASE Expire(t)
  <2>1. /\ UNCHANGED <<object, at, head, tail, free, link, data, mqEntry, cell, message>>
        /\ error' = [error EXCEPT ![t] = "ETIMEOUT"] /\ armed[t]
    BY <1>2 DEF Expire, Timeout, objectVars, messageQueueVars
  <2>2. at[t] \in List
    BY <1>1, <2>1 DEF Waits
  <2>3. Outside' /\ Errors'
    <3>1. \A u \in Thread : error'[u] # "EOK" => error'[u] = error[u] \/ at[u] \in List
      BY <1>1, <2>1, <2>2 DEF Typed
    <3> QED
      BY <1>1, <2>1, <3>1, RestStays
  <2>4. Cells' /\ ChannelStep
    BY <1>1, <2>1, AsideStep DEF ChannelStep
  <2> QED
    BY <2>3, <2>4 DEF QInv
<1>3. CASE ReturnError(t)
  <2>1. /\ UNCHANGED <<object, head, tail, free, link, data, mqEntry, cell>>
        /\ error' = [error EXCEPT ![t] = "EOK"]
        /\ at' = [at EXCEPT ![t] = "idle"]
        /\ message' = [message EXCEPT ![t] = None]
        /\ at[t] \in List
    BY <1>3 DEF ReturnError, GiveUp, Return, Failed
  <2>2. \A c \in Context : c # t => at'[c] = at[c] /\ message'[c] = message[c]
    BY <1>1, <2>1
  <2>3. at'[t] \notin Inside /\ at[t] \notin Inside
    BY <1>1, <2>1 DEF Inside, List
  <2>4. Outside'
    BY <1>1, <2>1, <2>2, <2>3 DEF Outside
  <2>5. Errors'
    <3>1. \A u \in Thread : error'[u] # "EOK" => u # t /\ error'[u] = error[u]
      BY <1>1, <2>1 DEF Typed
    <3> QED
      BY <1>1, <2>2, <3>1 DEF Errors
  <2>6. Cells' /\ ChannelStep
    <3>1. message' \in [Context -> Message \union {None}]
      BY <1>1, <2>1
    <3>2. \A c \in Context : at'[c] # at[c] \/ message'[c] # message[c] =>
                               at[c] \notin Inside /\ at'[c] \notin Inside
      BY <2>2, <2>3
    <3> QED
      BY <1>1, <2>1, <3>1, <3>2, AsideStep DEF ChannelStep
  <2> QED
    BY <2>4, <2>5, <2>6 DEF QInv
<1>4. CASE EndStep(t)
  <2>1. /\ UNCHANGED <<mailboxVars, messageQueueVars, memPoolVars>>
        /\ at[t] \in {"idle"} \union Ending /\ at'[t] \in {"idle"} \union Ending
        /\ \A c \in Context \ {t} :
             /\ at'[c] = at[c]
             /\ at[c] = "idle" \/ (c \in Thread /\ at[c] \in List)
        /\ \A u \in Thread : error'[u] # "EOK" =>
             error'[u] = error[u] \/ (u # t /\ at[u] \in List)
    BY <1>1, <1>4, EndMoves
  <2>2. UNCHANGED <<head, tail, free, link, data, mqEntry, cell, message>>
    BY <2>1 DEF messageQueueVars
  <2>3. Inside \intersect ({"idle"} \union Ending \union List) = {}
    BY DEF Inside, Ending, List
  <2>4. \A c \in Context : at[c] \notin Inside /\ at'[c] \notin Inside
    BY <2>1, <2>3
  <2>5. \A c \in Isr : at'[c] = "idle"
    BY <1>1, <2>1 DEF Context
  <2>6. Outside'
    BY <2>4, <2>5 DEF Outside
  <2>7. Errors'
    <3>1. ({"idle"} \union Ending) \intersect List = {}
      BY DEF Ending, List
    <3>2. ASSUME NEW u \in Thread, error'[u] # "EOK" PROVE at'[u] \in List
      <4>1. u # t /\ at[u] \in List
        BY <1>1, <2>1, <3>1, <3>2 DEF Errors
      <4> QED
        BY <1>1, <2>1, <4>1
    <3> QED
      BY <3>2 DEF Errors
  <2>8. Cells' /\ ChannelStep
    BY <1>1, <2>2, <2>4, AsideStep DEF ChannelStep
  <2> QED
    BY <2>6, <2>7, <2>8 DEF QInv
<1> QED
  BY <1>2, <1>3, <1>4

(* Another object is made.                                                  *)
LEMMA CreateClears ==
  ASSUME QInv, Create PROVE QInv' /\ ChannelStep
<1>1. /\ object = None /\ None \notin Cell
      /\ MessageQueueFresh(head', tail', free', link', data', mqEntry')
      /\ UNCHANGED <<at, error, cell, message>>
  BY MessageQueueConstants DEF Create, threadVars
<1>2. /\ \A c \in Context : at[c] \notin Inside
      /\ \A c \in Isr : at[c] = "idle"
      /\ CellTypes /\ Hands
  <2>1. object # "queue"
    BY <1>1, IpcConstants DEF ListsOf
  <2> QED
    BY <2>1 DEF QInv, Outside, Cells
<1>3. /\ head' = None /\ tail' = None /\ mqEntry' = 0
      /\ data' = [m \in Cell |-> None]
      /\ link' \in [Cell -> Cell \union {None}]
  BY <1>1, FreshCells
<1>4. PICK F : Linked(link', free', F) /\ Members(F) = Cell
  BY <1>1, FreshCells
<1>5. CellTypes'
  BY <1>1, <1>2, <1>3 DEF CellTypes
<1>6. Hands'
  BY <1>1, <1>2 DEF Hands, Inside
<1>7. Chains(F, <<>>)'
  <2>1. /\ Linked(link', head', <<>>) /\ Members(<<>>) = {} /\ Len(<<>>) = 0
    BY <1>3 DEF Linked, Members, Distinct
  <2>2. \A c \in Context : cell'[c] = None
    BY <1>1, <1>2 DEF Hands
  <2> QED
    BY <1>1, <1>3, <1>4, <2>1, <2>2 DEF Chains
<1>8. Cells' /\ MqContent' = <<>>
  BY <1>5, <1>6, <1>7, CellsThen DEF Contents
<1>9. Outside' /\ Errors'
  BY <1>1, <1>2 DEF QInv, Outside, Errors
<1>10. MqSending' = MqSending /\ MqReceiving' = MqReceiving
  <2>1. ASSUME NEW c \in Context
        PROVE  SendingOf(c)' = SendingOf(c) /\ ReceivingOf(c)' = ReceivingOf(c)
    BY <1>1, <1>2 DEF SendingOf, ReceivingOf, Inside
  <2> QED
    BY <2>1 DEF MqSending, SendingOf, MqReceiving, ReceivingOf
<1>11. QueueChannel!Clear
  BY <1>8, <1>10 DEF QueueChannel!Clear
<1> QED
  BY <1>8, <1>9, <1>11 DEF QInv, ChannelStep, QueueChannel!Next

(* Nothing happens.                                                         *)
LEMMA StayKeepsQInv ==
  ASSUME QInv, UNCHANGED vars
  PROVE  QInv' /\ UNCHANGED <<MqContent, MqSending, MqReceiving>>
<1>1. UNCHANGED <<object, at, error, head, tail, free, link, data, mqEntry, cell, message>>
  BY DEF vars, threadVars, objectVars, messageQueueVars
<1>2. Cells' /\ UNCHANGED <<MqContent, MqSending, MqReceiving>>
  BY <1>1, AsideStep DEF QInv, Cells, CellTypes
<1>3. Outside' /\ Errors'
  BY <1>1 DEF QInv, Outside, Errors
<1> QED
  BY <1>2, <1>3 DEF QInv

(* Every step keeps the invariant and is a step of the channel or none.     *)
LEMMA NextKeepsQInv == ASSUME IInv, QInv, Next PROVE QInv' /\ ChannelStep
<1>1. Waits /\ Typed /\ Errors /\ Outside /\ Cells
  BY DEF IInv, QInv
<1>2. CASE UseQueue /\ UNCHANGED <<object, flag>>
  <2>1. object = "queue" /\ MessageQueueNext /\ object' = object
    BY <1>2 DEF UseQueue
  <2>2. Outside' /\ Errors'
    BY <1>1, <2>1, QueueStays
  <2>3. Cells' /\ ChannelStep
    BY <1>1, <2>1, QueueUses
  <2> QED
    BY <2>2, <2>3 DEF QInv
<1>3. CASE (UseMutex \/ UseEvent \/ UseMailbox \/ UsePool) /\ UNCHANGED <<object, flag>>
  <2>1. object # "queue" /\ UNCHANGED messageQueueVars /\ object' = object
    BY <1>3 DEF UseMutex, UseEvent, UseMailbox, UsePool
  <2>2. MutexNext \/ EventNext \/ MailboxNext \/ MemPoolNext
    BY <1>3 DEF UseMutex, UseEvent, UseMailbox, MailboxStep, UsePool
  <2>3. Outside' /\ Errors'
    BY <1>1, <2>1, <2>2, MutexStays, EventStays, MailboxStays, PoolStays
  <2>4. Cells' /\ ChannelStep
    BY <1>1, <2>1, <2>3, OtherUses
  <2> QED
    BY <2>3, <2>4 DEF QInv
<1>4. ASSUME NEW t \in Thread, Expire(t) \/ ReturnError(t) \/ EndStep(t)
      PROVE  QInv' /\ ChannelStep
  BY <1>4, ThreadSteps
<1>5. CASE Create
  BY <1>5, CreateClears
<1>6. CASE UNCHANGED vars
  BY <1>6, StayKeepsQInv DEF ChannelStep
<1> QED
  BY <1>2, <1>3, <1>4, <1>5, <1>6 DEF Next, EndStep

(* The invariant holds.                                                     *)
LEMMA QInvHolds == Spec => [](IInv /\ QInv)
<1> QED
  BY InvariantHolds, InitQInv, NextKeepsQInv, StayKeepsQInv, PTL DEF Spec

(* rt_mq_send_wait, rt_mq_urgent and rt_mq_recv implement a bounded channel *)
(* although cells are filled and copied without the lock, and although      *)
(* waits time out and the queue is reset, detached and made again.          *)
THEOREM QueueIsChannel == Spec => QueueImplementsChannel
<1>1. Init => QueueChannel!Init
  BY InitQInv
<1>2. IInv /\ QInv /\ [Next]_vars => [QueueChannel!Next]_(QueueChannel!vars)
  BY NextKeepsQInv, StayKeepsQInv DEF ChannelStep, QueueChannel!vars
<1> QED
  BY <1>1, <1>2, QInvHolds, PTL DEF Spec, QueueImplementsChannel, QueueChannel!Spec

-----------------------------------------------------------------------------
(* The memory pool *)

\* Every block is in the free list, once, or with a caller.
Blocks ==
  /\ blockList \in Seq(Block) /\ Distinct(blockList) /\ freeCount = Len(blockList)
  /\ held \subseteq Block
  /\ Members(blockList) \intersect held = {} /\ Members(blockList) \union held = Block

(* rt_mp_init: all blocks are free.                                         *)
LEMMA FreshBlocks ==
  ASSUME NEW s, NEW n, NEW out, MemPoolFresh(s, n, out)
  PROVE  /\ s \in Seq(Block) /\ Distinct(s) /\ n = Len(s) /\ out = {}
         /\ Members(s) = Block
<1>1. /\ s = (CHOOSE r \in SetToSeqs(Block) : TRUE)
      /\ n = Cardinality(Block) /\ out = {}
  BY DEF MemPoolFresh
<1>2. s \in Seq(Block) /\ Distinct(s) /\ Members(s) = Block /\ Len(s) = Cardinality(Block)
  BY <1>1, MemPoolConstants, OrderExists
<1> QED
  BY <1>1, <1>2

(* rt_mp_alloc and rt_mp_free hand out a free block and take back a held one.*)
LEMMA PoolKeepsBlocks == ASSUME Blocks, MemPoolNext PROVE Blocks'
<1>1. ASSUME NEW c \in Context, MpAlloc(c) PROVE Blocks'
  <2>1. /\ freeCount > 0 /\ freeCount' = freeCount - 1
        /\ blockList' = Tail(blockList) /\ held' = held \union {Head(blockList)}
    BY <1>1 DEF MpAlloc
  <2>2. blockList # <<>> /\ Len(blockList) \in Nat
    BY <2>1 DEF Blocks
  <2>3. /\ blockList' \in Seq(Block) /\ Distinct(blockList')
        /\ Head(blockList) \in Members(blockList)
        /\ Members(blockList') = Members(blockList) \ {Head(blockList)}
    BY <2>1, <2>2, TailMembers DEF Blocks
  <2>4. Len(blockList') = Len(blockList) - 1
    BY <2>1, <2>2 DEF Blocks
  <2> QED
    BY <2>1, <2>3, <2>4 DEF Blocks
<1>2. ASSUME NEW c \in Context, NEW b \in Block, MpFree(c, b) PROVE Blocks'
  <2>1. /\ b \in held /\ freeCount' = freeCount + 1
        /\ blockList' = <<b>> \o blockList /\ held' = held \ {b}
    BY <1>2 DEF MpFree
  <2>2. blockList \in Seq(Block) /\ Distinct(blockList) /\ b \notin Members(blockList)
    BY <2>1 DEF Blocks
  <2>3. /\ blockList' \in Seq(Block) /\ Distinct(blockList')
        /\ Len(blockList') = Len(blockList) + 1
        /\ Members(blockList') = Members(blockList) \union {b}
    BY <2>1, <2>2, PrependMembers
  <2> QED
    BY <2>1, <2>3 DEF Blocks
<1>3. ASSUME NEW t \in Thread, MpTooLate(t) \/ \E lim \in Limits : MpWait(t, lim)
      PROVE  Blocks'
  BY <1>3 DEF MpTooLate, MpWait, memPoolVars, Blocks
<1> QED
  BY <1>1, <1>2, <1>3 DEF MemPoolNext

\* The blocks of a pool are exact in every behaviour.
LEMMA BlocksHold == Spec => []Blocks
<1>1. ASSUME Init PROVE Blocks
  BY <1>1, FreshBlocks DEF Init, Blocks
<1>2. ASSUME Blocks, [Next]_vars PROVE Blocks'
  <2>1. CASE UsePool
    BY <1>2, <2>1, PoolKeepsBlocks DEF UsePool
  <2>2. CASE Create
    BY <2>2, FreshBlocks DEF Create, Blocks
  <2>3. CASE UNCHANGED memPoolVars
    BY <1>2, <2>3 DEF memPoolVars, Blocks
  <2>4. ASSUME NEW t \in Thread, Expire(t) \/ ReturnError(t) \/ EndStep(t)
        PROVE  UNCHANGED memPoolVars
    BY <2>4 DEF Expire, ReturnError, EndStep, Detach, EndTest, EndWake, EndFail, EndOver,
       objectVars
  <2>5. UseMutex \/ UseEvent \/ UseMailbox \/ UseQueue => UNCHANGED memPoolVars
    BY DEF UseMutex, UseEvent, UseMailbox, UseQueue
  <2>6. UNCHANGED vars => UNCHANGED memPoolVars
    BY DEF vars, objectVars
  <2> QED
    BY <1>2, <2>1, <2>2, <2>3, <2>4, <2>5, <2>6 DEF Next, EndStep
<1> QED
  BY <1>1, <1>2, PTL DEF Spec

-----------------------------------------------------------------------------
(* The members of one sequence behind another.                              *)
LEMMA ConcatMembers ==
  ASSUME NEW S, NEW r \in Seq(S), NEW s \in Seq(S)
  PROVE  ToSet(r \o s) = Members(r) \union Members(s)
<1> DEFINE n == Len(r)
           k == Len(s)
           q == r \o s
<1>1. /\ n \in Nat /\ k \in Nat /\ DOMAIN q = 1 .. n + k
      /\ Members(r) = {r[i] : i \in 1 .. n} /\ Members(s) = {s[i] : i \in 1 .. k}
      /\ ToSet(q) = {q[i] : i \in 1 .. n + k}
  BY DEF Members, ToSet
<1>2. \A i \in 1 .. n + k : q[i] = IF i <= n THEN r[i] ELSE s[i - n]
  BY ConcatProperties
<1> HIDE DEF n, k, q
<1>3. ASSUME NEW i \in 1 .. n PROVE r[i] \in ToSet(q)
  <2>1. i \in 1 .. n + k /\ i <= n
    BY <1>1
  <2> QED
    BY <1>1, <1>2, <2>1
<1>4. ASSUME NEW i \in 1 .. k PROVE s[i] \in ToSet(q)
  <2> DEFINE j == n + i
  <2>1. j \in 1 .. n + k /\ ~(j <= n) /\ j - n = i
    BY <1>1
  <2> HIDE DEF j
  <2>2. q[j] = s[i]
    BY <1>2, <2>1
  <2> QED
    BY <1>1, <2>1, <2>2
<1>5. ASSUME NEW i \in 1 .. n + k PROVE q[i] \in Members(r) \union Members(s)
  <2>1. i <= n => i \in 1 .. n
    BY <1>1
  <2>2. ~(i <= n) => i - n \in 1 .. k
    BY <1>1
  <2> QED
    BY <1>1, <1>2, <2>1, <2>2
<1> QED
  BY <1>1, <1>3, <1>4, <1>5 DEF q

(* The contexts that have a cell are as many as the cells in hand.          *)
LEMMA HandsCardinality ==
  ASSUME CellTypes, Hands
  PROVE  LET inHand == {c \in Context : cell[c] # None}
             cells  == {cell[c] : c \in inHand}
         IN  /\ cells \subseteq Cell /\ IsFiniteSet(cells)
             /\ IsFiniteSet(inHand) /\ Cardinality(inHand) = Cardinality(cells)
<1> DEFINE inHand == {c \in Context : cell[c] # None}
           cells == {cell[c] : c \in inHand}
           f == [c \in inHand |-> cell[c]]
<1>1. cells \subseteq Cell
  BY DEF CellTypes
<1>2. IsFiniteSet(cells)
  BY <1>1, MessageQueueConstants, FS_Subset
<1>3. /\ f \in [inHand -> cells]
      /\ \A c, d \in inHand : f[c] = f[d] => c = d
      /\ \A x \in cells : \E c \in inHand : f[c] = x
  BY DEF Hands
<1> HIDE DEF f, cells, inHand
<1>4. f \in Bijection(inHand, cells)
  BY <1>3, Fun_IsBij
<1>5. ExistsBijection(cells, inHand)
  BY <1>4, Fun_ExistsBijSymmetric DEF ExistsBijection
<1>6. IsFiniteSet(inHand) /\ Cardinality(inHand) = Cardinality(cells)
  BY <1>2, <1>5, FS_Bijection
<1> QED
  BY <1>1, <1>2, <1>6 DEF cells, inHand

(* No cell of a message queue and no block of a pool is lost or in two      *)
(* places, however calls, timeouts and resets follow each other; and the    *)
(* counters mq->entry and mp->block_free_count agree with the lists.        *)
THEOREM CellsAreExact == Spec => []CellsExact
<1>1. ASSUME QInv, Blocks PROVE CellsExact
  <2> DEFINE F == Chain(link, free)
             Q == Chain(link, head)
             inHand == {c \in Context : cell[c] # None}
             cells == {cell[c] : c \in inHand}
  <2>1. Chains(F, Q) /\ CellTypes /\ Hands
    BY <1>1 DEF QInv, Cells
  <2>2. cells \subseteq Cell /\ IsFiniteSet(cells) /\ Cardinality(inHand) = Cardinality(cells)
    BY <2>1, HandsCardinality
  <2> HIDE DEF F, Q
  <2>3. /\ F \in Seq(Cell) /\ Distinct(F) /\ Q \in Seq(Cell) /\ Distinct(Q)
        /\ Members(F) \intersect Members(Q) = {}
        /\ cells \intersect (Members(F) \union Members(Q)) = {}
        /\ \A m \in Cell : m \in Members(F) \union Members(Q) \/ m \in cells
    BY <2>1, MessageQueueConstants DEF Chains, Linked
  <2> HIDE DEF cells, inHand
  <2>4. Members(F) \subseteq Cell /\ Members(Q) \subseteq Cell
    BY <2>3 DEF Members
  <2>5. ToSet(F \o Q) = Members(F) \union Members(Q) /\ Len(F \o Q) = Len(F) + Len(Q)
    BY <2>3, ConcatMembers
  <2>6. ToSet(F \o Q) \union cells = Cell
    BY <2>2, <2>3, <2>4, <2>5
  <2>7. Len(F \o Q) + Cardinality(inHand) = Cardinality(Cell)
    <3>1. /\ IsFiniteSet(Members(F)) /\ Cardinality(Members(F)) = Len(F)
          /\ IsFiniteSet(Members(Q)) /\ Cardinality(Members(Q)) = Len(Q)
      BY <2>3, DistinctCardinality
    <3>2. /\ IsFiniteSet(Members(F) \union Members(Q))
          /\ Cardinality(Members(F) \union Members(Q)) = Len(F) + Len(Q)
      BY <2>3, <3>1, DisjointCardinality
    <3>3. Cardinality((Members(F) \union Members(Q)) \union cells)
            = Cardinality(Members(F) \union Members(Q)) + Cardinality(cells)
      BY <2>2, <2>3, <3>2, DisjointCardinality
    <3>4. (Members(F) \union Members(Q)) \union cells = Cell
      BY <2>5, <2>6
    <3> QED
      BY <2>2, <2>5, <3>2, <3>3, <3>4
  <2>8. Len(Q) = mqEntry /\ (head # None => tail = Last(Q))
    BY <2>1 DEF Chains, Linked, Last
  <2>9. ToSet(blockList) = Members(blockList)
    BY DEF ToSet, Members
  <2>10. Len(blockList) + Cardinality(held) = Cardinality(Block)
    <3>1. IsFiniteSet(held)
      BY <1>1, MemPoolConstants, FS_Subset DEF Blocks
    <3>2. IsFiniteSet(Members(blockList)) /\ Cardinality(Members(blockList)) = Len(blockList)
      BY <1>1, DistinctCardinality DEF Blocks
    <3>3. Cardinality(Members(blockList) \union held)
            = Cardinality(Members(blockList)) + Cardinality(held)
      BY <1>1, <3>1, <3>2, DisjointCardinality DEF Blocks
    <3> QED
      BY <1>1, <3>2, <3>3 DEF Blocks
  <2> QED
    BY <1>1, <2>6, <2>7, <2>8, <2>9, <2>10 DEF CellsExact, Blocks, F, Q, cells, inHand
<1> QED
  BY <1>1, QInvHolds, BlocksHold, PTL

-----------------------------------------------------------------------------
(* The ring *)

\* The slot i places behind the offset o.
Slot(o, i) == IF o + i < MbSize THEN o + i ELSE o + i - MbSize

\* The k mails of the ring p from the offset o on.
Mails(p, o, k) == [i \in 1 .. k |-> p[Slot(o, i - 1)]]

Ring == 0 .. MbSize - 1

(* Slots follow each other, and the slots of the ring are all different.    *)
LEMMA SlotsFollow ==
  ASSUME NEW o \in Ring
  PROVE  /\ \A i \in 0 .. MbSize : Slot(o, i) \in Ring
         /\ Slot(o, 0) = o
         /\ After(o) \in Ring /\ Before(o) \in Ring
         /\ \A i \in Ring : After(Slot(o, i)) = Slot(o, i + 1)
         /\ \A i \in Ring : Slot(After(o), i) = Slot(o, i + 1)
         /\ \A i \in Ring : Slot(Before(o), i + 1) = Slot(o, i)
         /\ Slot(Before(o), 0) = Before(o)
         /\ \A i, j \in Ring : Slot(o, i) = Slot(o, j) => i = j
         /\ \A i \in Ring : Slot(o, i) = Before(o) => i = MbSize - 1
BY MailboxConstants DEF Slot, After, Before, Ring

(* The remainder in MbContent is that slot.                                 *)
LEMMA SlotIsRemainder ==
  ASSUME NEW o \in Ring, NEW i \in Ring
  PROVE  (o + i) % MbSize = Slot(o, i)
<1> DEFINE N == MbSize
<1>1. N \in Nat \ {0} /\ o \in 0 .. N - 1 /\ i \in 0 .. N - 1
  BY MailboxConstants DEF Ring
<1>2. \A x \in 0 .. N - 1 : x % N = x
  BY <1>1, SMTT(30)
<1>3. \A x \in Int : N <= x /\ x < 2 * N => x % N = x - N
  BY <1>1, SMTT(30)
<1> HIDE DEF N
<1>4. CASE o + i < N
  <2>1. o + i \in 0 .. N - 1
    BY <1>1, <1>4
  <2> QED
    BY <1>2, <1>4, <2>1 DEF Slot, N
<1>5. CASE ~(o + i < N)
  <2>1. o + i \in Int /\ N <= o + i /\ o + i < 2 * N
    BY <1>1, <1>5
  <2>2. (o + i) % N = (o + i) - N
    BY <1>3, <2>1
  <2>3. Slot(o, i) = (o + i) - N
    BY <1>1, <1>5, MailboxConstants DEF Slot, N
  <2> QED
    BY <2>2, <2>3 DEF N
<1> QED
  BY <1>4, <1>5

(* What storing a mail behind the contents does to them.                    *)
LEMMA MailsStored ==
  ASSUME NEW o \in Ring, NEW k \in Ring, NEW p, NEW q, NEW v,
         q[Slot(o, k)] = v,
         \A s \in Ring : s # Slot(o, k) => q[s] = p[s]
  PROVE  /\ Mails(q, o, k) = Mails(p, o, k)
         /\ Mails(q, o, k + 1) = Append(Mails(p, o, k), v)
<1>1. k \in Nat /\ k \in 0 .. MbSize /\ \A i \in 1 .. k : i - 1 \in Ring /\ i - 1 # k
  BY MailboxConstants DEF Ring
<1>2. /\ \A i \in 0 .. MbSize : Slot(o, i) \in Ring
      /\ \A i, j \in Ring : Slot(o, i) = Slot(o, j) => i = j
  BY SlotsFollow
<1>3. \A i \in 1 .. k : i - 1 \in 0 .. MbSize
  BY MailboxConstants DEF Ring
<1>4. \A i \in 1 .. k : q[Slot(o, i - 1)] = p[Slot(o, i - 1)]
  BY <1>1, <1>2, <1>3
<1>5. Mails(q, o, k) = Mails(p, o, k)
  BY <1>4 DEF Mails
<1>6. q[Slot(o, k)] = v
  BY <1>1, <1>2
<1>7. Mails(q, o, k + 1) = Append(Mails(p, o, k), v)
  BY <1>1, <1>4, <1>6 DEF Mails
<1> QED
  BY <1>5, <1>7

(* The same in front of them.                                               *)
LEMMA MailsPushed ==
  ASSUME NEW o \in Ring, NEW k \in Ring, NEW p, NEW q, NEW v,
         \A s \in Ring : q[s] = IF s = Before(o) THEN v ELSE p[s]
  PROVE  Mails(q, Before(o), k + 1) = <<v>> \o Mails(p, o, k)
<1>1. k \in Nat /\ \A i \in 1 .. k : i - 1 \in Ring /\ i - 1 # MbSize - 1 /\ i - 1 \in 0 .. MbSize
  BY MailboxConstants DEF Ring
<1>2. /\ \A i \in 0 .. MbSize : Slot(o, i) \in Ring
      /\ \A i \in Ring : Slot(Before(o), i + 1) = Slot(o, i)
      /\ \A i \in Ring : Slot(o, i) = Before(o) => i = MbSize - 1
      /\ Slot(Before(o), 0) = Before(o) /\ Before(o) \in Ring
  BY SlotsFollow
<1>3. \A i \in 1 .. k : q[Slot(Before(o), i)] = p[Slot(o, i - 1)]
  <2> TAKE i \in 1 .. k
  <2>1. Slot(Before(o), (i - 1) + 1) = Slot(o, i - 1) /\ Slot(o, i - 1) \in Ring
        /\ Slot(o, i - 1) # Before(o)
    BY <1>1, <1>2
  <2>2. (i - 1) + 1 = i
    BY <1>1
  <2> QED
    BY <2>1, <2>2
<1>4. q[Slot(Before(o), 0)] = v
  BY <1>2
<1>5. <<v>> \o [i \in 1 .. k |-> p[Slot(o, i - 1)]] =
        [i \in 1 .. k + 1 |-> IF i = 1 THEN v ELSE p[Slot(o, (i - 1) - 1)]]
  <2> DEFINE f(i) == p[Slot(o, i - 1)]
  <2> HIDE DEF f
  <2>1. <<v>> \o [i \in 1 .. k |-> f(i)] =
          [i \in 1 .. k + 1 |-> IF i = 1 THEN v ELSE f(i - 1)]
    BY <1>1
  <2> QED
    BY <2>1 DEF f
<1>6. \A i \in 1 .. k + 1 : q[Slot(Before(o), i - 1)] =
        IF i = 1 THEN v ELSE p[Slot(o, (i - 1) - 1)]
  <2> TAKE i \in 1 .. k + 1
  <2>1. CASE i = 1
    BY <2>1, <1>4
  <2>2. CASE i # 1
    <3>1. i - 1 \in 1 .. k
      BY <2>2, <1>1
    <3> QED
      BY <2>2, <3>1, <1>3
  <2> QED
    BY <2>1, <2>2
<1> QED
  BY <1>5, <1>6 DEF Mails

(* And removing the first one.                                              *)
LEMMA MailsRemoved ==
  ASSUME NEW o \in Ring, NEW k \in 1 .. MbSize, NEW p
  PROVE  /\ Mails(p, o, k) # <<>>
         /\ Head(Mails(p, o, k)) = p[o]
         /\ Mails(p, After(o), k - 1) = Tail(Mails(p, o, k))
<1>1. k \in Nat /\ k >= 1 /\ k - 1 \in Nat /\ \A i \in 1 .. k - 1 : i - 1 \in Ring
  BY MailboxConstants DEF Ring
<1>2. Slot(o, 0) = o /\ \A i \in Ring : Slot(After(o), i) = Slot(o, i + 1)
  BY SlotsFollow
<1>3. \A i \in 1 .. k - 1 : p[Slot(After(o), i - 1)] = p[Slot(o, i)]
  <2> TAKE i \in 1 .. k - 1
  <2>1. (i - 1) + 1 = i /\ i - 1 \in Ring
    BY <1>1
  <2> QED
    BY <1>2, <2>1
<1>4. /\ Len(Mails(p, o, k)) = k /\ Mails(p, o, k) # <<>>
      /\ Head(Mails(p, o, k)) = p[o]
  BY <1>1, <1>2 DEF Mails
<1>5. Mails(p, After(o), k - 1) = Tail(Mails(p, o, k))
  BY <1>1, <1>3 DEF Mails
<1> QED
  BY <1>4, <1>5

(* A mailbox that is not full has room.                                     *)
LEMMA MailsLength ==
  ASSUME NEW o, NEW k \in Ring, NEW p
  PROVE  Len(Mails(p, o, k)) < MbSize
<1>1. k \in Nat /\ k < MbSize
  BY MailboxConstants DEF Ring
<1>2. Len(Mails(p, o, k)) = k
  BY <1>1 DEF Mails
<1> QED
  BY <1>1, <1>2

-----------------------------------------------------------------------------
(* The inductive invariant of the mailbox *)

\* The places where a mail has its slot and is not counted yet.
Sending == {"mbStore", "mbIn", "mbCountUp"}

\* Only a thread that waited at the mailbox works on it without the lock, and
\* only one.
Alone ==
  /\ \A c, d \in Context : at[c] \in Unlocked /\ at[d] \in Unlocked => c = d
  /\ \A c \in Isr : at[c] \notin Unlocked
  /\ object # "mailbox" => \A c \in Context : at[c] \notin Unlocked

\* When the contexts are at w: mails that are counted although they are gone,
\* and mails that are in the ring and not counted.
TakenOf(w) == IF \E t \in Thread : w[t] = "mbCountDown" THEN 1 ELSE 0
AddedOf(w) == IF \E t \in Thread : w[t] = "mbCountUp" THEN 1 ELSE 0

\* The mails that can be received.
Filled == mbEntry - TakenOf(at)

\* The offsets are as far apart as there are mails between them.
RingFits ==
  /\ inOffset = Slot(outOffset, Filled + AddedOf(at))
  /\ \A i \in Ring : i < Filled => msgPool[Slot(outOffset, i)] \in Mail

\* How far a thread behind its wait has come.
StageFits(t) ==
  /\ at[t] \in Sending => mbEntry < MbSize
  /\ at[t] = "mbIn" => msgPool[inOffset] = mail[t]
  /\ at[t] = "mbCountUp" => msgPool[Slot(outOffset, mbEntry)] = mail[t]
  /\ at[t] \in {"mbOut", "mbCountDown"} => mbEntry > 0
  /\ at[t] = "mbOut" => mail[t] = msgPool[outOffset]
  /\ at[t] = "mbSendAgain" => mbEntry = MbSize
  /\ at[t] = "mbRecvAgain" => mbEntry = 0
  /\ at[t] \in {"mbSend", "mbSendAgain", "mbCountDown"} \union Sending => mail[t] \in Mail

MailboxTypes == MailboxTypeOK /\ mbEntry <= MbSize

MbInv ==
  /\ Alone
  /\ MailboxTypes
  /\ RingFits
  /\ \A t \in Thread : StageFits(t)

(* The counts when at most one thread is behind its wait.                   *)
LEMMA CountsOf ==
  ASSUME NEW w, NEW t \in Thread,
         \A u \in Thread : u # t => w[u] \notin Unlocked
  PROVE  /\ TakenOf(w) = IF w[t] = "mbCountDown" THEN 1 ELSE 0
         /\ AddedOf(w) = IF w[t] = "mbCountUp" THEN 1 ELSE 0
<1>1. \A u \in Thread : u # t => w[u] # "mbCountDown" /\ w[u] # "mbCountUp"
  BY DEF Unlocked
<1> QED
  BY <1>1 DEF TakenOf, AddedOf

LEMMA CountsOfNone ==
  ASSUME NEW w, \A u \in Thread : w[u] \notin Unlocked
  PROVE  TakenOf(w) = 0 /\ AddedOf(w) = 0
<1>1. \A u \in Thread : w[u] # "mbCountDown" /\ w[u] # "mbCountUp"
  BY DEF Unlocked
<1> QED
  BY <1>1 DEF TakenOf, AddedOf

(* The number of contexts that left the ring and did not count yet.         *)
LEMMA LeavingIsTaken ==
  ASSUME Alone PROVE Leaving = TakenOf(at)
<1> DEFINE L == {t \in Thread : at[t] = "mbCountDown"}
<1>1. CASE L = {}
  <2>1. Cardinality(L) = 0
    BY <1>1, FS_EmptySet, Zenon
  <2>2. TakenOf(at) = 0
    BY <1>1 DEF TakenOf
  <2> QED
    BY <2>1, <2>2 DEF Leaving
<1>2. CASE L # {}
  <2>1. PICK t \in Thread : at[t] = "mbCountDown"
    BY <1>2
  <2>2. L = {t}
    BY <2>1 DEF Alone, Unlocked, Context
  <2>3. Cardinality({t}) = 1
    BY FS_Singleton
  <2>4. TakenOf(at) = 1
    BY <2>1 DEF TakenOf
  <2> QED
    BY <2>2, <2>3, <2>4 DEF Leaving
<1> QED
  BY <1>1, <1>2

(* A thread that took the first mail has one fewer to leave, so there is    *)
(* one.                                                                     *)
LEMMA FilledCounts ==
  ASSUME MbInv
  PROVE  /\ mbEntry \in 0 .. MbSize /\ Filled \in 0 .. MbSize
         /\ AddedOf(at) = 1 => TakenOf(at) = 0 /\ mbEntry < MbSize
<1>1. mbEntry \in 0 .. MbSize
  BY MailboxConstants DEF MbInv, MailboxTypes, MailboxTypeOK
<1>2. CASE \E t \in Thread : at[t] \in Unlocked
  <2>1. PICK t \in Thread : at[t] \in Unlocked
    BY <1>2
  <2>2. \A u \in Thread : u # t => at[u] \notin Unlocked
    BY <2>1 DEF MbInv, Alone, Context
  <2>3. /\ TakenOf(at) = IF at[t] = "mbCountDown" THEN 1 ELSE 0
        /\ AddedOf(at) = IF at[t] = "mbCountUp" THEN 1 ELSE 0
    BY <2>2, CountsOf
  <2>4. StageFits(t)
    BY DEF MbInv
  <2>5. at[t] = "mbCountDown" => mbEntry > 0
    BY <2>4 DEF StageFits
  <2>6. at[t] = "mbCountUp" => mbEntry < MbSize
    BY <2>4 DEF StageFits, Sending
  <2> QED
    BY <1>1, <2>3, <2>5, <2>6, MailboxConstants DEF Filled
<1>3. CASE ~\E t \in Thread : at[t] \in Unlocked
  BY <1>1, <1>3, CountsOfNone DEF Filled
<1> QED
  BY <1>2, <1>3

(* What MbContent stands for.                                               *)
LEMMA ContentNow ==
  MbInv => MbContent = Mails(msgPool, outOffset, Filled)
<1> SUFFICES ASSUME MbInv PROVE MbContent = Mails(msgPool, outOffset, Filled)
  OBVIOUS
<1>1. mbEntry - Leaving = Filled
  BY LeavingIsTaken DEF MbInv, Filled
<1>2. Filled \in 0 .. MbSize /\ outOffset \in Ring
  BY FilledCounts DEF MbInv, MailboxTypes, MailboxTypeOK, Ring
<1> DEFINE k == Filled
<1> HIDE DEF k
<1>3. \A i \in 1 .. k : (outOffset + i - 1) % MbSize = Slot(outOffset, i - 1)
  <2> TAKE i \in 1 .. k
  <2>1. i - 1 \in Ring /\ outOffset + i - 1 = outOffset + (i - 1)
    BY <1>2, MailboxConstants DEF k, Ring
  <2> QED
    BY <1>2, <2>1, SlotIsRemainder
<1>4. MbContent = [i \in 1 .. k |-> msgPool[(outOffset + i - 1) % MbSize]]
  BY <1>1 DEF MbContent, k
<1> QED
  BY <1>3, <1>4 DEF Mails, k

LEMMA ContentThen ==
  MbInv' => MbContent' = Mails(msgPool', outOffset', Filled')
<1>1. (MbInv => MbContent = Mails(msgPool, outOffset, Filled))'
  BY ContentNow, PTL
<1> QED
  BY <1>1 DEF Mails

\* What is on its way in and out of the mailbox, context by context.
MbSendingOf(c) == IF at[c] \in Sending THEN mail[c] ELSE None
MbReceivingOf(c) == IF at[c] = "mbCountDown" THEN mail[c] ELSE None

(* What is on its way changes for one context.                              *)
LEMMA MbWaysChange ==
  ASSUME NEW c \in Context,
         \A d \in Context : d # c =>
           MbSendingOf(d)' = MbSendingOf(d) /\ MbReceivingOf(d)' = MbReceivingOf(d)
  PROVE  /\ MbSending[c] = MbSendingOf(c) /\ MbReceiving[c] = MbReceivingOf(c)
         /\ MbSending' = [MbSending EXCEPT ![c] = MbSendingOf(c)']
         /\ MbReceiving' = [MbReceiving EXCEPT ![c] = MbReceivingOf(c)']
         /\ MbSendingOf(c)' = MbSendingOf(c) => MbSending' = MbSending
         /\ MbReceivingOf(c)' = MbReceivingOf(c) => MbReceiving' = MbReceiving
<1>1. /\ MbSending = [d \in Context |-> MbSendingOf(d)]
      /\ MbReceiving = [d \in Context |-> MbReceivingOf(d)]
  BY DEF MbSending, MbSendingOf, MbReceiving, MbReceivingOf, Sending
<1>2. /\ MbSending' = [d \in Context |-> MbSendingOf(d)']
      /\ MbReceiving' = [d \in Context |-> MbReceivingOf(d)']
  BY DEF MbSending, MbSendingOf, MbReceiving, MbReceivingOf, Sending
<1> QED
  BY <1>1, <1>2

(* Nothing is on its way where nobody is behind a wait.                     *)
LEMMA MbWaysRest ==
  ASSUME \A c \in Context : at[c] \notin Unlocked,
         \A c \in Context : at'[c] \notin Unlocked
  PROVE  MbSending' = MbSending /\ MbReceiving' = MbReceiving
<1>1. \A c \in Context : at[c] \notin Sending /\ at[c] # "mbCountDown"
  BY DEF Unlocked, Sending
<1>2. \A c \in Context : at'[c] \notin Sending /\ at'[c] # "mbCountDown"
  BY DEF Unlocked, Sending
<1> QED
  BY <1>1, <1>2 DEF MbSending, MbReceiving, Sending

-----------------------------------------------------------------------------
(* The sections under the lock, each with its step of the channel           *)

MbChannelStep ==
  MailboxChannel!Next \/ UNCHANGED <<MbContent, MbSending, MbReceiving>>

\* No thread is behind its wait.
NoneBehind == \A c \in Context : at[c] \notin Unlocked

(* With nobody behind a wait all that is counted is there.                  *)
LEMMA NoneBehindCounts ==
  ASSUME MbInv, NoneBehind
  PROVE  /\ Filled = mbEntry /\ AddedOf(at) = 0 /\ TakenOf(at) = 0
         /\ mbEntry \in 0 .. MbSize
         /\ inOffset = Slot(outOffset, mbEntry)
         /\ MbContent = Mails(msgPool, outOffset, mbEntry)
<1>1. \A u \in Thread : at[u] \notin Unlocked
  BY DEF NoneBehind, Context
<1>2. TakenOf(at) = 0 /\ AddedOf(at) = 0
  BY <1>1, CountsOfNone
<1>3. mbEntry \in 0 .. MbSize
  BY FilledCounts
<1>4. Filled = mbEntry
  BY <1>2, <1>3 DEF Filled
<1>5. inOffset = Slot(outOffset, mbEntry)
  BY <1>2, <1>3, <1>4 DEF MbInv, RingFits
<1> QED
  BY <1>2, <1>3, <1>4, <1>5, ContentNow

(* The invariant behind a section that leaves nobody behind a wait.         *)
LEMMA LockedSection ==
  ASSUME MbInv, NoneBehind, NoneBehind', MailboxTypes',
         \A t \in Thread : at'[t] = "mbSend" => mail'[t] \in Mail,
         inOffset' = Slot(outOffset', mbEntry'),
         \A i \in Ring : i < mbEntry' => msgPool'[Slot(outOffset', i)] \in Mail
  PROVE  /\ MbInv' /\ MbContent' = Mails(msgPool', outOffset', mbEntry')
         /\ MbSending' = MbSending /\ MbReceiving' = MbReceiving
<1>1. \A u \in Thread : at'[u] \notin Unlocked
  BY DEF NoneBehind, Context
<1>2. TakenOf(at') = 0 /\ AddedOf(at') = 0
  BY <1>1, CountsOfNone
<1>3. mbEntry' \in Nat
  BY DEF MailboxTypes, MailboxTypeOK
<1>4. Filled' = mbEntry'
  BY <1>2, <1>3 DEF Filled, TakenOf
<1>5. RingFits'
  <2>1. (Filled + AddedOf(at))' = mbEntry'
    BY <1>2, <1>3, <1>4 DEF AddedOf
  <2> QED
    BY <1>4, <2>1 DEF RingFits, Slot
<1>6. \A t \in Thread : StageFits(t)'
  BY <1>1 DEF StageFits, Unlocked, Sending
<1>7. Alone'
  BY DEF NoneBehind, Alone, Context
<1>8. MbInv'
  BY <1>5, <1>6, <1>7 DEF MbInv
<1>9. MbContent' = Mails(msgPool', outOffset', mbEntry')
  BY <1>4, <1>8, ContentThen
<1>10. MbSending' = MbSending /\ MbReceiving' = MbReceiving
  BY MbWaysRest DEF NoneBehind
<1> QED
  BY <1>8, <1>9, <1>10

(* A section that stores values of the types keeps them.                    *)
LEMMA StoredTypes ==
  ASSUME MbInv, msgPool' \in [Ring -> Mail \union {None}], inOffset' \in Ring,
         outOffset' \in Ring, mbEntry' \in 0 .. MbSize, mail' = mail
  PROVE  MailboxTypes'
<1>1. mbEntry' \in Nat /\ mbEntry' <= MbSize
  BY MailboxConstants
<1> QED
  BY <1>1 DEF MbInv, MailboxTypes, MailboxTypeOK, Ring

(* rt_mb_send_wait that need not wait.                                      *)
LEMMA SendSends ==
  ASSUME MbInv, NoneBehind, NEW c \in Context, NEW v \in Mail, MbSend(c, v)
  PROVE  MbInv' /\ MbChannelStep
<1>1. /\ mbEntry # MbSize /\ UNCHANGED <<outOffset, mail, at>>
      /\ msgPool' = [msgPool EXCEPT ![inOffset] = v]
      /\ inOffset' = After(inOffset) /\ mbEntry' = mbEntry + 1
  BY DEF MbSend, Full
<1>2. /\ mbEntry \in 0 .. MbSize /\ inOffset = Slot(outOffset, mbEntry)
      /\ MbContent = Mails(msgPool, outOffset, mbEntry) /\ Filled = mbEntry
  BY NoneBehindCounts
<1>3. /\ msgPool \in [Ring -> Mail \union {None}]
      /\ inOffset \in Ring /\ outOffset \in Ring
  BY DEF MbInv, MailboxTypes, MailboxTypeOK, Ring
<1>4. mbEntry \in Ring /\ mbEntry' \in 0 .. MbSize
  BY <1>1, <1>2, MailboxConstants DEF Ring
<1>5. \A s \in Ring : msgPool'[s] = IF s = Slot(outOffset, mbEntry) THEN v ELSE msgPool[s]
  BY <1>1, <1>2, <1>3
<1>6. inOffset' \in Ring /\ inOffset' = Slot(outOffset', mbEntry')
  BY <1>1, <1>2, <1>3, <1>4, SlotsFollow
<1>7. \A i \in Ring : i < mbEntry' => msgPool'[Slot(outOffset', i)] \in Mail
  <2> TAKE i \in Ring
  <2> HAVE i < mbEntry'
  <2>1. Slot(outOffset, i) \in Ring
    <3>1. i \in 0 .. MbSize
      BY MailboxConstants DEF Ring
    <3> QED
      BY <1>3, <3>1, SlotsFollow
  <2>2. i < mbEntry => msgPool[Slot(outOffset, i)] \in Mail
    BY <1>2 DEF MbInv, RingFits
  <2>3. i = mbEntry \/ i < mbEntry
    BY <1>1, <1>4 DEF Ring
  <2> QED
    BY <1>1, <1>5, <2>1, <2>2, <2>3
<1>8. MailboxTypes'
  <2>1. msgPool' \in [Ring -> Mail \union {None}]
    BY <1>1, <1>3
  <2> QED
    BY <1>1, <1>3, <1>4, <1>6, <2>1, StoredTypes
<1>9. /\ NoneBehind'
      /\ \A t \in Thread : at'[t] = "mbSend" => mail'[t] \in Mail
  BY <1>1 DEF NoneBehind, MbInv, StageFits
<1>10. /\ MbInv' /\ MbContent' = Mails(msgPool', outOffset', mbEntry')
       /\ MbSending' = MbSending /\ MbReceiving' = MbReceiving
  BY <1>6, <1>7, <1>8, <1>9, LockedSection
<1>11. MbContent' = Append(MbContent, v)
  <2>1. outOffset \in Ring /\ mbEntry \in Ring
    BY <1>3, <1>4
  <2>2. Mails(msgPool', outOffset, mbEntry + 1) = Append(Mails(msgPool, outOffset, mbEntry), v)
    <3> DEFINE p == msgPool
               q == msgPool'
    <3>1. /\ q[Slot(outOffset, mbEntry)] = v
          /\ \A s \in Ring : s # Slot(outOffset, mbEntry) => q[s] = p[s]
      BY <1>2, <1>3, <1>5
    <3> HIDE DEF p, q
    <3>2. Mails(q, outOffset, mbEntry + 1) = Append(Mails(p, outOffset, mbEntry), v)
      BY <2>1, <3>1, MailsStored
    <3> QED
      BY <3>2 DEF p, q
  <2> QED
    BY <1>1, <1>2, <1>10, <2>2
<1>12. Len(MbContent) < MbSize
  BY <1>2, <1>4, MailsLength
<1>13. MailboxChannel!Send(v)
  BY <1>10, <1>11, <1>12 DEF MailboxChannel!Send, MailboxChannel!AddLast
<1> QED
  BY <1>10, <1>13 DEF MbChannelStep, MailboxChannel!Next

(* rt_mb_urgent.                                                            *)
LEMMA UrgentSends ==
  ASSUME MbInv, NoneBehind, NEW c \in Context, NEW v \in Mail, MbUrgent(c, v)
  PROVE  MbInv' /\ MbChannelStep
<1>1. /\ mbEntry # MbSize /\ UNCHANGED <<inOffset, mail, at>>
      /\ outOffset' = Before(outOffset) /\ mbEntry' = mbEntry + 1
      /\ msgPool' = [msgPool EXCEPT ![Before(outOffset)] = v]
  BY DEF MbUrgent, Full
<1>2. /\ mbEntry \in 0 .. MbSize /\ inOffset = Slot(outOffset, mbEntry)
      /\ MbContent = Mails(msgPool, outOffset, mbEntry) /\ Filled = mbEntry
  BY NoneBehindCounts
<1>3. /\ msgPool \in [Ring -> Mail \union {None}]
      /\ inOffset \in Ring /\ outOffset \in Ring
  BY DEF MbInv, MailboxTypes, MailboxTypeOK, Ring
<1>4. mbEntry \in Ring /\ mbEntry' \in 0 .. MbSize
  BY <1>1, <1>2, MailboxConstants DEF Ring
<1>5. /\ outOffset' \in Ring
      /\ \A i \in Ring : Slot(outOffset', i + 1) = Slot(outOffset, i)
      /\ Slot(outOffset', 0) = Before(outOffset)
      /\ \A i \in Ring : Slot(outOffset, i) \in Ring
      /\ \A i \in Ring : Slot(outOffset, i) = Before(outOffset) => i = MbSize - 1
  <2>1. Ring \subseteq 0 .. MbSize
    BY MailboxConstants DEF Ring
  <2> QED
    BY <1>1, <1>3, <2>1, SlotsFollow
<1>6. \A s \in Ring : msgPool'[s] = IF s = Before(outOffset) THEN v ELSE msgPool[s]
  BY <1>1, <1>3
<1>7. inOffset' = Slot(outOffset', mbEntry')
  BY <1>1, <1>2, <1>4, <1>5
<1>8. \A i \in Ring : i < mbEntry' => msgPool'[Slot(outOffset', i)] \in Mail
  <2> TAKE i \in Ring
  <2> HAVE i < mbEntry'
  <2>1. CASE i = 0
    BY <1>1, <1>5, <1>6, <2>1
  <2>2. CASE i # 0
    <3> DEFINE j == i - 1
    <3>1. j \in Ring /\ j < mbEntry /\ j + 1 = i /\ j # MbSize - 1
      BY <1>1, <1>4, <2>2, MailboxConstants DEF Ring
    <3> HIDE DEF j
    <3>2. msgPool[Slot(outOffset, j)] \in Mail
      BY <1>2, <3>1 DEF MbInv, RingFits
    <3>3. Slot(outOffset', i) = Slot(outOffset, j)
      BY <1>5, <3>1
    <3> QED
      BY <1>5, <1>6, <3>1, <3>2, <3>3
  <2> QED
    BY <2>1, <2>2
<1>9. MailboxTypes'
  <2>1. msgPool' \in [Ring -> Mail \union {None}]
    BY <1>1, <1>3
  <2> QED
    BY <1>1, <1>3, <1>4, <1>5, <2>1, StoredTypes
<1>10. /\ NoneBehind'
       /\ \A t \in Thread : at'[t] = "mbSend" => mail'[t] \in Mail
  BY <1>1 DEF NoneBehind, MbInv, StageFits
<1>11. /\ MbInv' /\ MbContent' = Mails(msgPool', outOffset', mbEntry')
       /\ MbSending' = MbSending /\ MbReceiving' = MbReceiving
  BY <1>7, <1>8, <1>9, <1>10, LockedSection
<1>12. MbContent' = <<v>> \o MbContent
  <2>1. Mails(msgPool', Before(outOffset), mbEntry + 1)
          = <<v>> \o Mails(msgPool, outOffset, mbEntry)
    BY <1>3, <1>4, <1>6, MailsPushed
  <2> QED
    BY <1>1, <1>2, <1>11, <2>1
<1>13. Len(MbContent) < MbSize
  BY <1>2, <1>4, MailsLength
<1>14. MailboxChannel!Urgent(v)
  BY <1>11, <1>12, <1>13 DEF MailboxChannel!Urgent, MailboxChannel!AddFirst
<1> QED
  BY <1>11, <1>14 DEF MbChannelStep, MailboxChannel!Next

(* rt_mb_recv that need not wait.                                           *)
LEMMA RecvReceives ==
  ASSUME MbInv, NoneBehind, NEW c \in Context, MbRecv(c)
  PROVE  MbInv' /\ MbChannelStep
<1>1. /\ mbEntry > 0 /\ UNCHANGED <<msgPool, inOffset, mail, at>>
      /\ outOffset' = After(outOffset) /\ mbEntry' = mbEntry - 1
  BY DEF MbRecv
<1>2. /\ mbEntry \in 0 .. MbSize /\ inOffset = Slot(outOffset, mbEntry)
      /\ MbContent = Mails(msgPool, outOffset, mbEntry) /\ Filled = mbEntry
  BY NoneBehindCounts
<1>3. inOffset \in Ring /\ outOffset \in Ring
  BY DEF MbInv, MailboxTypes, MailboxTypeOK, Ring
<1>4. mbEntry \in 1 .. MbSize /\ mbEntry' \in Ring /\ mbEntry' + 1 = mbEntry
  BY <1>1, <1>2, MailboxConstants DEF Ring
<1>5. /\ outOffset' \in Ring
      /\ \A i \in Ring : Slot(outOffset', i) = Slot(outOffset, i + 1)
  BY <1>1, <1>3, SlotsFollow
<1>6. inOffset' = Slot(outOffset', mbEntry')
  BY <1>1, <1>2, <1>4, <1>5
<1>7. \A i \in Ring : i < mbEntry' => msgPool'[Slot(outOffset', i)] \in Mail
  <2> TAKE i \in Ring
  <2> HAVE i < mbEntry'
  <2>1. i + 1 \in Ring /\ i + 1 < mbEntry
    BY <1>1, <1>4, MailboxConstants DEF Ring
  <2> QED
    BY <1>1, <1>2, <1>5, <2>1 DEF MbInv, RingFits
<1>8. MailboxTypes'
  BY <1>1, <1>4, <1>5, MailboxConstants DEF MbInv, MailboxTypes, MailboxTypeOK, Ring
<1>9. /\ NoneBehind'
      /\ \A t \in Thread : at'[t] = "mbSend" => mail'[t] \in Mail
  BY <1>1 DEF NoneBehind, MbInv, StageFits
<1>10. /\ MbInv' /\ MbContent' = Mails(msgPool', outOffset', mbEntry')
       /\ MbSending' = MbSending /\ MbReceiving' = MbReceiving
  BY <1>6, <1>7, <1>8, <1>9, LockedSection
<1>11. MbContent # <<>> /\ MbContent' = Tail(MbContent)
  <2>1. /\ Mails(msgPool, outOffset, mbEntry) # <<>>
        /\ Mails(msgPool, After(outOffset), mbEntry - 1) = Tail(Mails(msgPool, outOffset, mbEntry))
    BY <1>3, <1>4, MailsRemoved
  <2> QED
    BY <1>1, <1>2, <1>10, <2>1
<1>12. MailboxChannel!Receive
  BY <1>10, <1>11 DEF MailboxChannel!Receive, MailboxChannel!Remove
<1> QED
  BY <1>10, <1>12 DEF MbChannelStep, MailboxChannel!Next

(* RT_IPC_CMD_RESET, and a new mailbox, are empty.                          *)
LEMMA EmptiedClears ==
  ASSUME MbInv, NoneBehind, NoneBehind',
         mbEntry' = 0, inOffset' = 0, outOffset' = 0,
         msgPool' \in [Ring -> Mail \union {None}], mail' = mail,
         \A t \in Thread : at'[t] = at[t]
  PROVE  MbInv' /\ MbChannelStep
<1>1. Slot(0, 0) = 0 /\ 0 \in Ring
  BY MailboxConstants DEF Slot, Ring
<1>2. MailboxTypes'
  BY <1>1, MailboxConstants DEF MbInv, MailboxTypes, MailboxTypeOK, Ring
<1>3. \A i \in Ring : ~(i < mbEntry')
  BY DEF Ring
<1>4. \A t \in Thread : at'[t] = "mbSend" => mail'[t] \in Mail
  BY DEF MbInv, StageFits
<1>5. /\ MbInv' /\ MbContent' = Mails(msgPool', outOffset', mbEntry')
      /\ MbSending' = MbSending /\ MbReceiving' = MbReceiving
  BY <1>1, <1>2, <1>3, <1>4, LockedSection
<1>6. MbContent' = <<>>
  BY <1>5 DEF Mails
<1>7. MailboxChannel!Clear
  BY <1>5, <1>6 DEF MailboxChannel!Clear
<1> QED
  BY <1>5, <1>7 DEF MbChannelStep, MailboxChannel!Next

-----------------------------------------------------------------------------
(* The steps of the only thread behind its wait *)

(* The invariant behind such a step, f mails being there.                   *)
LEMMA LoneThen ==
  ASSUME NEW t \in Thread,
         \A c \in Context \ {t} : at'[c] \notin Unlocked,
         at'[t] \in Unlocked => object' = "mailbox",
         \A u \in Thread \ {t} : at'[u] = "mbSend" => mail'[u] \in Mail,
         MailboxTypes', StageFits(t)',
         NEW f, f = mbEntry' - (IF at'[t] = "mbCountDown" THEN 1 ELSE 0),
         inOffset' = Slot(outOffset', f + (IF at'[t] = "mbCountUp" THEN 1 ELSE 0)),
         \A i \in Ring : i < f => msgPool'[Slot(outOffset', i)] \in Mail
  PROVE  MbInv' /\ MbContent' = Mails(msgPool', outOffset', f)
<1>1. \A u \in Thread : u # t => at'[u] \notin Unlocked
  BY DEF Context
<1>2. /\ TakenOf(at') = IF at'[t] = "mbCountDown" THEN 1 ELSE 0
      /\ AddedOf(at') = IF at'[t] = "mbCountUp" THEN 1 ELSE 0
  BY <1>1, CountsOf
<1>3. Filled' = f /\ AddedOf(at)' = IF at'[t] = "mbCountUp" THEN 1 ELSE 0
  BY <1>2 DEF Filled, TakenOf, AddedOf
<1>4. RingFits'
  BY <1>3 DEF RingFits, Slot
<1>5. \A u \in Thread : StageFits(u)'
  <2>1. ASSUME NEW u \in Thread, u # t PROVE StageFits(u)'
    <3>1. at'[u] \notin Unlocked /\ (at'[u] = "mbSend" => mail'[u] \in Mail)
      BY <1>1, <2>1
    <3> QED
      BY <3>1 DEF StageFits, Unlocked, Sending
  <2> QED
    BY <2>1
<1>6. Alone'
  <2>1. t \notin Isr
    BY WaitingConstants
  <2> QED
    BY <2>1 DEF Alone, Context
<1>7. MbInv'
  BY <1>4, <1>5, <1>6 DEF MbInv
<1> QED
  BY <1>3, <1>7, ContentThen

(* What only its own step changes of what is on its way.                    *)
LEMMA LoneWays ==
  ASSUME NEW t \in Thread,
         \A c \in Context \ {t} : at[c] \notin Unlocked /\ at'[c] \notin Unlocked
  PROVE  /\ MbSending[t] = MbSendingOf(t) /\ MbReceiving[t] = MbReceivingOf(t)
         /\ MbSending' = [MbSending EXCEPT ![t] = MbSendingOf(t)']
         /\ MbReceiving' = [MbReceiving EXCEPT ![t] = MbReceivingOf(t)']
         /\ MbSendingOf(t)' = MbSendingOf(t) => MbSending' = MbSending
         /\ MbReceivingOf(t)' = MbReceivingOf(t) => MbReceiving' = MbReceiving
<1>1. t \in Context
  BY DEF Context
<1>2. \A c \in Context : c # t =>
        MbSendingOf(c)' = MbSendingOf(c) /\ MbReceivingOf(c)' = MbReceivingOf(c)
  BY DEF MbSendingOf, MbReceivingOf, Unlocked, Sending
<1> QED
  BY <1>1, <1>2, MbWaysChange

\* The places of a thread between which no mail is counted.
Uncounted == {"mbCountUp", "mbCountDown"}

(* A step that leaves the mails that can be received where they are.        *)
LEMMA LoneStays ==
  ASSUME MbInv, NEW t \in Thread,
         \A c \in Context \ {t} : at[c] \notin Unlocked /\ at'[c] = at[c] /\ mail'[c] = mail[c],
         at[t] \notin Uncounted, at'[t] \notin Uncounted,
         at'[t] \in Unlocked => object' = "mailbox",
         UNCHANGED <<inOffset, outOffset, mbEntry>>,
         msgPool' \in [Ring -> Mail \union {None}],
         \A i \in Ring : i < mbEntry =>
           msgPool'[Slot(outOffset, i)] = msgPool[Slot(outOffset, i)],
         mail' \in [Context -> Mail \union {None}], StageFits(t)'
  PROVE  /\ MbInv' /\ MbContent' = MbContent
         /\ MbSendingOf(t)' = MbSendingOf(t) => MbChannelStep
<1>1. /\ TakenOf(at) = 0 /\ AddedOf(at) = 0
      /\ mbEntry \in 0 .. MbSize
  <2>1. \A u \in Thread : u # t => at[u] \notin Unlocked
    BY DEF Context
  <2> QED
    BY <2>1, CountsOf, FilledCounts DEF Uncounted
<1>2. Filled = mbEntry /\ Filled + AddedOf(at) = mbEntry
  BY <1>1 DEF Filled
<1>3. /\ inOffset = Slot(outOffset, mbEntry)
      /\ \A i \in Ring : i < mbEntry => msgPool[Slot(outOffset, i)] \in Mail
      /\ MbContent = Mails(msgPool, outOffset, mbEntry)
  BY <1>2, ContentNow DEF MbInv, RingFits
<1>4. MailboxTypes'
  BY DEF MbInv, MailboxTypes, MailboxTypeOK, Ring
<1>5. /\ \A c \in Context \ {t} : at'[c] \notin Unlocked
      /\ \A u \in Thread \ {t} : at'[u] = "mbSend" => mail'[u] \in Mail
  BY DEF MbInv, StageFits, Context
<1>6. /\ mbEntry = mbEntry' - (IF at'[t] = "mbCountDown" THEN 1 ELSE 0)
      /\ inOffset' = Slot(outOffset', mbEntry + (IF at'[t] = "mbCountUp" THEN 1 ELSE 0))
      /\ \A i \in Ring : i < mbEntry => msgPool'[Slot(outOffset', i)] \in Mail
  BY <1>1, <1>3 DEF Uncounted, Slot
<1>7. MbInv' /\ MbContent' = Mails(msgPool', outOffset', mbEntry)
  BY <1>4, <1>5, <1>6, LoneThen
<1>8. Mails(msgPool', outOffset', mbEntry) = Mails(msgPool, outOffset, mbEntry)
  <2>1. \A i \in 1 .. mbEntry : i - 1 \in Ring /\ i - 1 < mbEntry
    BY <1>1, MailboxConstants DEF Ring
  <2>2. \A i \in 1 .. mbEntry :
          msgPool'[Slot(outOffset, i - 1)] = msgPool[Slot(outOffset, i - 1)]
    BY <2>1
  <2>3. outOffset' = outOffset
    OBVIOUS
  <2> QED
    BY <2>2, <2>3 DEF Mails
<1>9. ASSUME MbSendingOf(t)' = MbSendingOf(t) PROVE MbChannelStep
  <2>1. MbReceivingOf(t)' = MbReceivingOf(t)
    BY DEF MbReceivingOf, Uncounted
  <2> QED
    BY <1>3, <1>5, <1>7, <1>8, <1>9, <2>1, LoneWays DEF MbChannelStep
<1> QED
  BY <1>3, <1>7, <1>8, <1>9

\* Thread t is in the mailbox, and nobody else is behind a wait.
Lone(t) == object = "mailbox" /\ \A c \in Context \ {t} : at[c] \notin Unlocked

(* Where a step of the lone thread leaves the others.                       *)
LEMMA LoneOthers ==
  ASSUME NEW t \in Thread, Lone(t), object' = object, Waits,
         \/ \E to : Goto(t, to)
         \/ Return(t)
         \/ \E to : at' = [at EXCEPT ![t] = to]
  PROVE  /\ \A c \in Context \ {t} : at[c] \notin Unlocked /\ at'[c] = at[c]
         /\ object' = "mailbox"
<1>1. \E to : at' = [at EXCEPT ![t] = to]
  BY DEF Goto, Return
<1>2. at = [c \in Context |-> at[c]]
  BY DEF Waits
<1> QED
  BY <1>1, <1>2 DEF Lone

(* What the places say of the ring.                                         *)
LEMMA LoneFacts ==
  ASSUME MbInv, NEW t \in Thread, Lone(t)
  PROVE  /\ mbEntry \in 0 .. MbSize /\ inOffset \in Ring /\ outOffset \in Ring
         /\ msgPool \in [Ring -> Mail \union {None}]
         /\ mail \in [Context -> Mail \union {None}] /\ None \notin Mail
         /\ Filled = mbEntry - (IF at[t] = "mbCountDown" THEN 1 ELSE 0)
         /\ Filled \in 0 .. MbSize
         /\ inOffset = Slot(outOffset, Filled + (IF at[t] = "mbCountUp" THEN 1 ELSE 0))
         /\ \A i \in Ring : i < Filled => msgPool[Slot(outOffset, i)] \in Mail
         /\ MbContent = Mails(msgPool, outOffset, Filled)
         /\ StageFits(t)
<1>1. \A u \in Thread : u # t => at[u] \notin Unlocked
  BY DEF Context, Lone
<1>2. /\ TakenOf(at) = IF at[t] = "mbCountDown" THEN 1 ELSE 0
      /\ AddedOf(at) = IF at[t] = "mbCountUp" THEN 1 ELSE 0
  BY <1>1, CountsOf
<1>3. /\ mbEntry \in 0 .. MbSize /\ Filled \in 0 .. MbSize
      /\ MbContent = Mails(msgPool, outOffset, Filled)
  BY FilledCounts, ContentNow
<1>4. /\ inOffset \in Ring /\ outOffset \in Ring
      /\ msgPool \in [Ring -> Mail \union {None}]
      /\ mail \in [Context -> Mail \union {None}] /\ None \notin Mail
  BY MailboxConstants DEF MbInv, MailboxTypes, MailboxTypeOK, Ring
<1>5. /\ inOffset = Slot(outOffset, Filled + (IF at[t] = "mbCountUp" THEN 1 ELSE 0))
      /\ \A i \in Ring : i < Filled => msgPool[Slot(outOffset, i)] \in Mail
  BY <1>2 DEF MbInv, RingFits
<1>6. Filled = mbEntry - (IF at[t] = "mbCountDown" THEN 1 ELSE 0)
  BY <1>2 DEF Filled
<1> QED
  BY <1>3, <1>4, <1>5, <1>6 DEF MbInv

(* The sender's test: it has its slot from here on, or waits on, or gives   *)
(* up.                                                                      *)
LEMMA RetestOffers ==
  ASSUME MbInv, Waits, NEW t \in Thread, Lone(t), object' = object, MbSendRetest(t)
  PROVE  MbInv' /\ MbChannelStep
<1>1. /\ at[t] = "mbSend" /\ UNCHANGED <<msgPool, inOffset, outOffset, mbEntry>>
      /\ \/ mbEntry # MbSize /\ Goto(t, "mbStore") /\ mail' = mail
         \/ mbEntry = MbSize /\ Return(t) /\ mail' = [mail EXCEPT ![t] = None]
         \/ mbEntry = MbSize /\ at' = [at EXCEPT ![t] = "mbSendAgain"] /\ mail' = mail
  BY DEF MbSendRetest, Woken, Full
<1>2. /\ mbEntry \in 0 .. MbSize /\ mail \in [Context -> Mail \union {None}]
      /\ msgPool \in [Ring -> Mail \union {None}] /\ None \notin Mail
      /\ mail[t] \in Mail /\ t \in Context
  BY <1>1, LoneFacts DEF StageFits, Context
<1>3. /\ \A c \in Context \ {t} : at[c] \notin Unlocked /\ at'[c] = at[c]
      /\ object' = "mailbox"
  BY <1>1, LoneOthers
<1>4. \A c \in Context \ {t} : mail'[c] = mail[c]
  BY <1>1, <1>2
<1>5. /\ mail' \in [Context -> Mail \union {None}]
      /\ msgPool' \in [Ring -> Mail \union {None}]
      /\ \A i \in Ring : i < mbEntry => msgPool'[Slot(outOffset, i)] = msgPool[Slot(outOffset, i)]
  BY <1>1, <1>2
<1>6. /\ \/ at'[t] = "mbStore" /\ mbEntry # MbSize /\ mail' = mail
         \/ at'[t] = "idle" /\ mail'[t] = None
         \/ at'[t] = "mbSendAgain" /\ mbEntry = MbSize /\ mail' = mail
      /\ at[t] \notin Uncounted /\ at'[t] \notin Uncounted
  BY <1>1, <1>2 DEF Goto, Return, Waits, Uncounted
<1>7. StageFits(t)'
  <2>1. mbEntry' = mbEntry
    BY <1>1
  <2>2. mbEntry # MbSize => mbEntry < MbSize
    BY <1>2, MailboxConstants
  <2> QED
    BY <1>2, <1>6, <2>1, <2>2 DEF StageFits, Sending
<1>8. /\ MbInv' /\ MbContent' = MbContent
      /\ MbSendingOf(t)' = MbSendingOf(t) => MbChannelStep
  BY <1>1, <1>3, <1>4, <1>5, <1>6, <1>7, LoneStays
<1>9. CASE at'[t] # "mbStore"
  <2>1. MbSendingOf(t)' = MbSendingOf(t)
    BY <1>1, <1>6, <1>9 DEF MbSendingOf, Sending
  <2> QED
    BY <1>8, <2>1
<1>10. CASE at'[t] = "mbStore"
  <2>1. /\ MbSendingOf(t) = None /\ MbSendingOf(t)' = mail[t]
        /\ MbReceivingOf(t)' = MbReceivingOf(t)
    BY <1>1, <1>6, <1>10 DEF MbSendingOf, MbReceivingOf, Sending
  <2>2. /\ MbSending[t] = None /\ MbReceiving' = MbReceiving
        /\ MbSending' = [MbSending EXCEPT ![t] = mail[t]]
    BY <1>3, <2>1, LoneWays
  <2>3. MailboxChannel!Offer(t)
    BY <1>2, <1>8, <2>2 DEF MailboxChannel!Offer
  <2> QED
    BY <1>2, <1>8, <2>3 DEF MbChannelStep, MailboxChannel!Next
<1> QED
  BY <1>9, <1>10

(* It stores its mail, and moves the offset.                                *)
LEMMA StoreStays ==
  ASSUME MbInv, Waits, NEW t \in Thread, Lone(t), object' = object, MbStore(t)
  PROVE  MbInv' /\ MbChannelStep
<1>1. /\ at[t] = "mbStore" /\ UNCHANGED <<inOffset, outOffset, mbEntry, mail>>
      /\ msgPool' = [msgPool EXCEPT ![inOffset] = mail[t]] /\ Goto(t, "mbIn")
  BY DEF MbStore
<1>2. /\ mbEntry \in 0 .. MbSize /\ mail \in [Context -> Mail \union {None}]
      /\ msgPool \in [Ring -> Mail \union {None}] /\ outOffset \in Ring /\ inOffset \in Ring
      /\ mail[t] \in Mail /\ t \in Context /\ mbEntry < MbSize
      /\ inOffset = Slot(outOffset, mbEntry)
  <2>1. Filled = mbEntry /\ StageFits(t)
    BY <1>1, LoneFacts
  <2> QED
    BY <1>1, <2>1, LoneFacts DEF StageFits, Context, Sending
<1>3. /\ \A c \in Context \ {t} : at[c] \notin Unlocked /\ at'[c] = at[c]
      /\ object' = "mailbox"
  BY <1>1, LoneOthers
<1>4. at'[t] = "mbIn"
  BY <1>1, <1>2 DEF Goto, Waits
<1>5. \A i \in Ring : i < mbEntry => msgPool'[Slot(outOffset, i)] = msgPool[Slot(outOffset, i)]
  <2> TAKE i \in Ring
  <2> HAVE i < mbEntry
  <2>1. mbEntry \in Ring /\ i # mbEntry /\ i \in 0 .. MbSize
    BY <1>2, MailboxConstants DEF Ring
  <2>2. Slot(outOffset, i) # Slot(outOffset, mbEntry)
    BY <1>2, <2>1, SlotsFollow
  <2>3. Slot(outOffset, i) \in Ring
    BY <1>2, <2>1, SlotsFollow
  <2> QED
    BY <1>1, <1>2, <2>2, <2>3
<1>6. msgPool' \in [Ring -> Mail \union {None}] /\ msgPool'[inOffset] = mail[t]
  BY <1>1, <1>2
<1>7. StageFits(t)'
  BY <1>1, <1>2, <1>4, <1>6 DEF StageFits, Sending
<1>8. MbInv' /\ (MbSendingOf(t)' = MbSendingOf(t) => MbChannelStep)
  BY <1>1, <1>2, <1>3, <1>4, <1>5, <1>6, <1>7, LoneStays DEF Uncounted
<1> QED
  BY <1>1, <1>4, <1>8 DEF MbSendingOf, Sending

(* It moves the offset.                                                     *)
LEMMA InStays ==
  ASSUME MbInv, Waits, NEW t \in Thread, Lone(t), object' = object, MbIn(t)
  PROVE  MbInv' /\ MbChannelStep
<1>1. /\ at[t] = "mbIn" /\ UNCHANGED <<msgPool, outOffset, mbEntry, mail>>
      /\ inOffset' = After(inOffset) /\ Goto(t, "mbCountUp")
  BY DEF MbIn
<1>2. Filled = mbEntry /\ StageFits(t)
  BY <1>1, LoneFacts
<1>3. /\ mbEntry \in 0 .. MbSize /\ mail \in [Context -> Mail \union {None}]
      /\ msgPool \in [Ring -> Mail \union {None}] /\ outOffset \in Ring /\ inOffset \in Ring
      /\ mail[t] \in Mail /\ t \in Context /\ mbEntry < MbSize
      /\ inOffset = Slot(outOffset, mbEntry) /\ msgPool[inOffset] = mail[t]
      /\ \A i \in Ring : i < mbEntry => msgPool[Slot(outOffset, i)] \in Mail
      /\ MbContent = Mails(msgPool, outOffset, mbEntry)
  <2>1. /\ mail[t] \in Mail /\ t \in Context /\ mbEntry < MbSize
        /\ msgPool[inOffset] = mail[t]
    BY <1>1, <1>2 DEF StageFits, Context, Sending
  <2>2. inOffset = Slot(outOffset, mbEntry + 0) /\ mbEntry + 0 = mbEntry
    BY <1>1, <1>2, LoneFacts
  <2> QED
    BY <1>2, <2>1, <2>2, LoneFacts
<1>4. /\ \A c \in Context \ {t} : at[c] \notin Unlocked /\ at'[c] = at[c]
      /\ object' = "mailbox"
  BY <1>1, LoneOthers
<1>5. at'[t] = "mbCountUp"
  BY <1>1, <1>3 DEF Goto, Waits
<1>6. mbEntry \in Ring
  BY <1>3, MailboxConstants DEF Ring
<1>7. inOffset' \in Ring /\ inOffset' = Slot(outOffset, mbEntry + 1)
  BY <1>1, <1>3, <1>6, SlotsFollow
<1>8. MailboxTypes'
  BY <1>1, <1>3, <1>7, StoredTypes
<1>9. StageFits(t)'
  BY <1>1, <1>3, <1>5 DEF StageFits, Sending, Slot
<1>10. /\ \A c \in Context \ {t} : at'[c] \notin Unlocked
       /\ \A u \in Thread \ {t} : at'[u] = "mbSend" => mail'[u] \in Mail
  BY <1>1, <1>4 DEF MbInv, StageFits, Context
<1>11. MbInv' /\ MbContent' = Mails(msgPool', outOffset', mbEntry)
  <2>1. /\ mbEntry = mbEntry' - (IF at'[t] = "mbCountDown" THEN 1 ELSE 0)
        /\ inOffset' = Slot(outOffset', mbEntry + (IF at'[t] = "mbCountUp" THEN 1 ELSE 0))
        /\ \A i \in Ring : i < mbEntry => msgPool'[Slot(outOffset', i)] \in Mail
    BY <1>1, <1>3, <1>5, <1>7 DEF Slot
  <2> QED
    BY <1>4, <1>8, <1>9, <1>10, <2>1, LoneThen
<1>12. MbSendingOf(t)' = MbSendingOf(t) /\ MbReceivingOf(t)' = MbReceivingOf(t)
  BY <1>1, <1>5 DEF MbSendingOf, MbReceivingOf, Sending
<1>13. MbSending' = MbSending /\ MbReceiving' = MbReceiving
  BY <1>4, <1>10, <1>12, LoneWays
<1> QED
  BY <1>1, <1>3, <1>11, <1>13 DEF MbChannelStep

(* It counts its mail, which is there from now on.                          *)
LEMMA CountUpPuts ==
  ASSUME MbInv, Waits, NEW t \in Thread, Lone(t), object' = object, MbCountUp(t)
  PROVE  MbInv' /\ MbChannelStep
<1>1. /\ at[t] = "mbCountUp" /\ UNCHANGED <<msgPool, inOffset, outOffset>>
      /\ mbEntry' = mbEntry + 1 /\ mail' = [mail EXCEPT ![t] = None]
      /\ Goto(t, "mbWakeRecv")
  BY DEF MbCountUp
<1>2. Filled = mbEntry /\ StageFits(t)
  BY <1>1, LoneFacts
<1>3. /\ mbEntry \in 0 .. MbSize /\ mail \in [Context -> Mail \union {None}]
      /\ msgPool \in [Ring -> Mail \union {None}] /\ outOffset \in Ring /\ inOffset \in Ring
      /\ mail[t] \in Mail /\ None \notin Mail /\ t \in Context /\ mbEntry < MbSize
      /\ inOffset = Slot(outOffset, mbEntry + 1)
      /\ msgPool[Slot(outOffset, mbEntry)] = mail[t]
      /\ \A i \in Ring : i < mbEntry => msgPool[Slot(outOffset, i)] \in Mail
      /\ MbContent = Mails(msgPool, outOffset, mbEntry)
  BY <1>1, <1>2, LoneFacts DEF StageFits, Context, Sending
<1>4. /\ \A c \in Context \ {t} : at[c] \notin Unlocked /\ at'[c] = at[c]
      /\ object' = "mailbox"
  BY <1>1, LoneOthers
<1>5. at'[t] = "mbWakeRecv"
  BY <1>1, <1>3 DEF Goto, Waits
<1>6. mbEntry \in Ring /\ mbEntry' \in 0 .. MbSize
  BY <1>1, <1>3, MailboxConstants DEF Ring
<1>7. /\ mail' \in [Context -> Mail \union {None}]
      /\ \A c \in Context \ {t} : mail'[c] = mail[c]
      /\ mail'[t] = None
  BY <1>1, <1>3
<1>8. MailboxTypes'
  <2>1. mbEntry' \in Nat /\ mbEntry' <= MbSize
    BY <1>6, MailboxConstants
  <2> QED
    BY <1>1, <1>3, <1>7, <2>1 DEF MailboxTypes, MailboxTypeOK, Ring
<1>9. StageFits(t)'
  BY <1>5 DEF StageFits, Sending
<1>10. /\ \A c \in Context \ {t} : at'[c] \notin Unlocked
       /\ \A u \in Thread \ {t} : at'[u] = "mbSend" => mail'[u] \in Mail
  BY <1>4, <1>7 DEF MbInv, StageFits, Context
<1>11. MbInv' /\ MbContent' = Mails(msgPool', outOffset', mbEntry')
  <2>1. \A i \in Ring : i < mbEntry' => msgPool'[Slot(outOffset', i)] \in Mail
    <3> TAKE i \in Ring
    <3> HAVE i < mbEntry'
    <3>1. i = mbEntry \/ i < mbEntry
      BY <1>1, <1>6 DEF Ring
    <3> QED
      BY <1>1, <1>3, <3>1
  <2>2. /\ mbEntry' = mbEntry' - (IF at'[t] = "mbCountDown" THEN 1 ELSE 0)
        /\ inOffset' = Slot(outOffset', mbEntry' + (IF at'[t] = "mbCountUp" THEN 1 ELSE 0))
    <3>1. mbEntry' + 0 = mbEntry' /\ mbEntry' - 0 = mbEntry'
      <4>1. mbEntry' \in Int
        BY <1>6
      <4>2. \A x \in Int : x + 0 = x /\ x - 0 = x
        OBVIOUS
      <4> QED
        BY <4>1, <4>2
    <3> QED
      BY <1>1, <1>3, <1>5, <3>1
  <2> QED
    BY <1>4, <1>8, <1>9, <1>10, <2>1, <2>2, LoneThen
<1>12. MbContent' = Append(MbContent, mail[t])
  <2>1. Mails(msgPool, outOffset, mbEntry + 1) = Append(Mails(msgPool, outOffset, mbEntry), mail[t])
    BY <1>3, <1>6, MailsStored
  <2> QED
    BY <1>1, <1>3, <1>11, <2>1
<1>13. Len(MbContent) < MbSize
  BY <1>3, <1>6, MailsLength
<1>14. /\ MbSendingOf(t) = mail[t] /\ MbSendingOf(t)' = None
       /\ MbReceivingOf(t)' = MbReceivingOf(t)
  BY <1>1, <1>5 DEF MbSendingOf, MbReceivingOf, Sending
<1>15. /\ MbSending[t] = mail[t] /\ MbReceiving' = MbReceiving
       /\ MbSending' = [MbSending EXCEPT ![t] = None]
  BY <1>4, <1>10, <1>14, LoneWays
<1>16. MailboxChannel!Put(t)
  BY <1>3, <1>12, <1>13, <1>15 DEF MailboxChannel!Put, MailboxChannel!AddLast
<1> QED
  BY <1>3, <1>11, <1>16 DEF MbChannelStep, MailboxChannel!Next

(* A receiver moves the offset past the mail it read.                       *)
LEMMA OutGets ==
  ASSUME MbInv, Waits, NEW t \in Thread, Lone(t), object' = object, MbOut(t)
  PROVE  MbInv' /\ MbChannelStep
<1>1. /\ at[t] = "mbOut" /\ UNCHANGED <<msgPool, inOffset, mbEntry, mail>>
      /\ outOffset' = After(outOffset) /\ Goto(t, "mbCountDown")
  BY DEF MbOut
<1>2. Filled = mbEntry /\ StageFits(t)
  BY <1>1, LoneFacts
<1>3. /\ mbEntry \in 0 .. MbSize /\ mail \in [Context -> Mail \union {None}]
      /\ msgPool \in [Ring -> Mail \union {None}] /\ outOffset \in Ring /\ inOffset \in Ring
      /\ None \notin Mail /\ t \in Context /\ mbEntry > 0
      /\ mail[t] = msgPool[outOffset]
      /\ inOffset = Slot(outOffset, mbEntry)
      /\ \A i \in Ring : i < mbEntry => msgPool[Slot(outOffset, i)] \in Mail
      /\ MbContent = Mails(msgPool, outOffset, mbEntry)
  <2>1. /\ t \in Context /\ mbEntry > 0 /\ mail[t] = msgPool[outOffset]
    BY <1>1, <1>2 DEF StageFits, Context
  <2>2. inOffset = Slot(outOffset, mbEntry + 0) /\ mbEntry + 0 = mbEntry
    BY <1>1, <1>2, LoneFacts
  <2> QED
    BY <1>2, <2>1, <2>2, LoneFacts
<1>4. /\ \A c \in Context \ {t} : at[c] \notin Unlocked /\ at'[c] = at[c]
      /\ object' = "mailbox"
  BY <1>1, LoneOthers
<1>5. at'[t] = "mbCountDown"
  BY <1>1, <1>3 DEF Goto, Waits
<1> DEFINE k == mbEntry - 1
<1>6. k \in Ring /\ mbEntry \in 1 .. MbSize /\ k + 1 = mbEntry /\ k \in Nat
  BY <1>3, MailboxConstants DEF Ring
<1>7. /\ outOffset' \in Ring /\ Slot(outOffset, 0) = outOffset
      /\ \A i \in Ring : Slot(outOffset', i) = Slot(outOffset, i + 1)
  BY <1>1, <1>3, SlotsFollow
<1>8. mail[t] \in Mail
  <2>1. 0 \in Ring /\ 0 < mbEntry
    BY <1>3, MailboxConstants DEF Ring
  <2> QED
    BY <1>3, <1>7, <2>1
<1>9. MailboxTypes'
  BY <1>1, <1>3, <1>7, StoredTypes
<1>10. StageFits(t)'
  BY <1>1, <1>3, <1>5, <1>8 DEF StageFits, Sending
<1>11. /\ \A c \in Context \ {t} : at'[c] \notin Unlocked
       /\ \A u \in Thread \ {t} : at'[u] = "mbSend" => mail'[u] \in Mail
  BY <1>1, <1>4 DEF MbInv, StageFits, Context
<1>12. MbInv' /\ MbContent' = Mails(msgPool', outOffset', k)
  <2>1. \A i \in Ring : i < k => msgPool'[Slot(outOffset', i)] \in Mail
    <3> TAKE i \in Ring
    <3> HAVE i < k
    <3>1. i + 1 \in Ring /\ i + 1 < mbEntry
      BY <1>3, <1>6, MailboxConstants DEF Ring
    <3> QED
      BY <1>1, <1>3, <1>7, <3>1
  <2>2. inOffset' = Slot(outOffset', k)
    BY <1>1, <1>3, <1>6, <1>7
  <2>3. /\ k = mbEntry' - (IF at'[t] = "mbCountDown" THEN 1 ELSE 0)
        /\ inOffset' = Slot(outOffset', k + (IF at'[t] = "mbCountUp" THEN 1 ELSE 0))
    <3>1. k + 0 = k /\ k = mbEntry' - 1
      BY <1>1, <1>6
    <3> HIDE DEF k
    <3> QED
      BY <1>5, <2>2, <3>1
  <2> HIDE DEF k
  <2> QED
    BY <1>4, <1>9, <1>10, <1>11, <2>1, <2>3, LoneThen
<1>13. /\ MbContent # <<>> /\ Head(MbContent) = mail[t]
       /\ MbContent' = Tail(MbContent)
  <2>1. /\ Mails(msgPool, outOffset, mbEntry) # <<>>
        /\ Head(Mails(msgPool, outOffset, mbEntry)) = msgPool[outOffset]
        /\ Mails(msgPool, After(outOffset), mbEntry - 1) = Tail(Mails(msgPool, outOffset, mbEntry))
    BY <1>3, <1>6, MailsRemoved
  <2> QED
    BY <1>1, <1>3, <1>12, <2>1
<1>14. /\ MbReceivingOf(t) = None /\ MbReceivingOf(t)' = mail[t]
       /\ MbSendingOf(t)' = MbSendingOf(t)
  BY <1>1, <1>5 DEF MbSendingOf, MbReceivingOf, Sending
<1>15. /\ MbReceiving[t] = None /\ MbSending' = MbSending
       /\ MbReceiving' = [MbReceiving EXCEPT ![t] = mail[t]]
  BY <1>4, <1>11, <1>14, LoneWays
<1>16. MailboxChannel!Get(t)
  BY <1>13, <1>15 DEF MailboxChannel!Get, MailboxChannel!Remove
<1> QED
  BY <1>3, <1>12, <1>16 DEF MbChannelStep, MailboxChannel!Next

(* It counts the mail it took, which was gone before.                       *)
LEMMA CountDownDelivers ==
  ASSUME MbInv, Waits, NEW t \in Thread, Lone(t), object' = object, MbCountDown(t)
  PROVE  MbInv' /\ MbChannelStep
<1>1. /\ at[t] = "mbCountDown" /\ UNCHANGED <<msgPool, inOffset, outOffset>>
      /\ mbEntry' = IF mbEntry > 0 THEN mbEntry - 1 ELSE 0
      /\ mail' = [mail EXCEPT ![t] = None]
      /\ Goto(t, "mbWakeSend")
  BY DEF MbCountDown
<1>2. /\ Filled = mbEntry - 1 /\ Filled \in 0 .. MbSize /\ StageFits(t)
      /\ inOffset = Slot(outOffset, Filled + 0)
  BY <1>1, LoneFacts
<1>3. /\ mbEntry \in 0 .. MbSize /\ mail \in [Context -> Mail \union {None}]
      /\ msgPool \in [Ring -> Mail \union {None}] /\ outOffset \in Ring /\ inOffset \in Ring
      /\ mail[t] \in Mail /\ None \notin Mail /\ t \in Context /\ mbEntry > 0
      /\ \A i \in Ring : i < Filled => msgPool[Slot(outOffset, i)] \in Mail
      /\ MbContent = Mails(msgPool, outOffset, Filled)
  BY <1>1, <1>2, LoneFacts DEF StageFits, Context
<1>4. mbEntry' = Filled /\ mbEntry' \in 0 .. MbSize
  BY <1>1, <1>2, <1>3
<1>5. /\ \A c \in Context \ {t} : at[c] \notin Unlocked /\ at'[c] = at[c]
      /\ object' = "mailbox"
  BY <1>1, LoneOthers
<1>6. at'[t] = "mbWakeSend"
  BY <1>1, <1>3 DEF Goto, Waits
<1>7. /\ mail' \in [Context -> Mail \union {None}]
      /\ \A c \in Context \ {t} : mail'[c] = mail[c]
  BY <1>1, <1>3
<1>8. MailboxTypes'
  <2>1. mbEntry' \in Nat /\ mbEntry' <= MbSize
    BY <1>4, MailboxConstants
  <2> QED
    BY <1>1, <1>3, <1>7, <2>1 DEF MailboxTypes, MailboxTypeOK, Ring
<1>9. StageFits(t)'
  BY <1>6 DEF StageFits, Sending
<1>10. /\ \A c \in Context \ {t} : at'[c] \notin Unlocked
       /\ \A u \in Thread \ {t} : at'[u] = "mbSend" => mail'[u] \in Mail
  BY <1>5, <1>7 DEF MbInv, StageFits, Context
<1>11. MbInv' /\ MbContent' = Mails(msgPool', outOffset', mbEntry')
  <2>1. mbEntry' + 0 = mbEntry' /\ mbEntry' - 0 = mbEntry' /\ Filled + 0 = Filled
    BY <1>4, MailboxConstants
  <2>2. /\ mbEntry' = mbEntry' - (IF at'[t] = "mbCountDown" THEN 1 ELSE 0)
        /\ inOffset' = Slot(outOffset', mbEntry' + (IF at'[t] = "mbCountUp" THEN 1 ELSE 0))
        /\ \A i \in Ring : i < mbEntry' => msgPool'[Slot(outOffset', i)] \in Mail
    BY <1>1, <1>2, <1>3, <1>4, <1>6, <2>1
  <2> QED
    BY <1>5, <1>8, <1>9, <1>10, <2>2, LoneThen
<1>12. MbContent' = MbContent
  BY <1>1, <1>3, <1>4, <1>11
<1>13. /\ MbReceivingOf(t) = mail[t] /\ MbReceivingOf(t)' = None
       /\ MbSendingOf(t)' = MbSendingOf(t)
  BY <1>1, <1>6 DEF MbSendingOf, MbReceivingOf, Sending
<1>14. /\ MbReceiving[t] = mail[t] /\ MbSending' = MbSending
       /\ MbReceiving' = [MbReceiving EXCEPT ![t] = None]
  BY <1>5, <1>10, <1>13, LoneWays
<1>15. MailboxChannel!Deliver(t)
  BY <1>3, <1>12, <1>14 DEF MailboxChannel!Deliver
<1> QED
  BY <1>3, <1>11, <1>15 DEF MbChannelStep, MailboxChannel!Next

(* The other steps leave every mail where it is.                            *)
LEMMA AsideStays ==
  ASSUME MbInv, Waits, NEW t \in Thread, Lone(t), object' = object,
         \/ \E v \in Mail, lim \in Limits : MbSendWait(t, v, lim)
         \/ \E lim \in Limits : MbRecvWait(t, lim)
         \/ MbSendAgain(t) \/ MbWakeRecv(t)
         \/ MbRecvRetest(t) \/ MbRecvAgain(t) \/ MbWakeSend(t)
  PROVE  MbInv' /\ MbChannelStep
<1>1. /\ mail \in [Context -> Mail \union {None}] /\ None \notin Mail /\ t \in Context
      /\ msgPool \in [Ring -> Mail \union {None}] /\ outOffset \in Ring
      /\ StageFits(t)
  BY LoneFacts DEF Context
<1>2. at = [c \in Context |-> at[c]]
  BY DEF Waits
<1>3. \E to : /\ at' = [at EXCEPT ![t] = to]
              /\ \/ at[t] = "idle" /\ to = "mbSend" /\ \E v \in Mail : mail' = [mail EXCEPT ![t] = v]
                 \/ at[t] = "mbSendAgain" /\ to = "mbSend" /\ mail' = mail
                 \/ at[t] = "idle" /\ to = "mbRecv" /\ mail' = mail
                 \/ at[t] = "mbRecvAgain" /\ to = "mbRecv" /\ mail' = mail
                 \/ at[t] \in {"mbWakeRecv", "mbWakeSend"} /\ to = "idle" /\ mail' = mail
                 \/ /\ at[t] = "mbRecv" /\ to = "mbOut" /\ mbEntry > 0
                    /\ mail' = [mail EXCEPT ![t] = msgPool[outOffset]]
                 \/ /\ at[t] = "mbRecv" /\ to \in {"idle", "mbRecvAgain"} /\ ~(mbEntry > 0)
                    /\ mail' = mail
  BY DEF MbSendWait, MbRecvWait, MbSendAgain, MbWakeRecv, MbRecvRetest, MbRecvAgain,
         MbWakeSend, Idle, Woken, Wait, Goto, Return, mailboxVars
<1>4. PICK to :
        /\ at' = [at EXCEPT ![t] = to]
        /\ \/ at[t] = "idle" /\ to = "mbSend" /\ \E v \in Mail : mail' = [mail EXCEPT ![t] = v]
           \/ at[t] = "mbSendAgain" /\ to = "mbSend" /\ mail' = mail
           \/ at[t] = "idle" /\ to = "mbRecv" /\ mail' = mail
           \/ at[t] = "mbRecvAgain" /\ to = "mbRecv" /\ mail' = mail
           \/ at[t] \in {"mbWakeRecv", "mbWakeSend"} /\ to = "idle" /\ mail' = mail
           \/ /\ at[t] = "mbRecv" /\ to = "mbOut" /\ mbEntry > 0
              /\ mail' = [mail EXCEPT ![t] = msgPool[outOffset]]
           \/ /\ at[t] = "mbRecv" /\ to \in {"idle", "mbRecvAgain"} /\ ~(mbEntry > 0)
              /\ mail' = mail
  BY <1>3
<1>5. UNCHANGED <<msgPool, inOffset, outOffset, mbEntry>>
  BY DEF MbSendWait, MbRecvWait, MbSendAgain, MbWakeRecv, MbRecvRetest, MbRecvAgain,
         MbWakeSend, mailboxVars
<1>6. /\ at'[t] = to
      /\ \A c \in Context \ {t} : at[c] \notin Unlocked /\ at'[c] = at[c]
      /\ object' = "mailbox"
  <2>1. object' = "mailbox" /\ \A c \in Context \ {t} : at[c] \notin Unlocked
    BY DEF Lone
  <2> QED
    BY <1>1, <1>2, <1>4, <2>1
<1>7. msgPool[outOffset] \in Mail \union {None}
  BY <1>1
<1>8. /\ mail' \in [Context -> Mail \union {None}]
      /\ \A c \in Context \ {t} : mail'[c] = mail[c]
  BY <1>1, <1>4, <1>7
<1>9. at[t] \notin Uncounted /\ at'[t] \notin Uncounted
  BY <1>4, <1>6 DEF Uncounted
<1>10. mbEntry \in Nat /\ (~(mbEntry > 0) => mbEntry = 0)
  <2>1. mbEntry \in 0 .. MbSize
    BY LoneFacts
  <2> QED
    BY <2>1
<1>11. StageFits(t)'
  <2>1. /\ at[t] = "mbSendAgain" => mail[t] \in Mail
        /\ mbEntry' = mbEntry /\ msgPool' = msgPool /\ outOffset' = outOffset
    BY <1>1, <1>5 DEF StageFits
  <2>2. /\ to = "mbSend" => mail'[t] \in Mail
        /\ to = "mbOut" => mbEntry > 0 /\ mail'[t] = msgPool[outOffset]
        /\ to = "mbRecvAgain" => mbEntry = 0
        /\ to \in {"mbSend", "mbRecv", "idle", "mbOut", "mbRecvAgain"}
    BY <1>1, <1>4, <1>10, <2>1
  <2> QED
    BY <1>6, <2>1, <2>2 DEF StageFits, Sending
<1>12. MbInv' /\ (MbSendingOf(t)' = MbSendingOf(t) => MbChannelStep)
  <2>1. \A i \in Ring : i < mbEntry => msgPool'[Slot(outOffset, i)] = msgPool[Slot(outOffset, i)]
    BY <1>5
  <2>2. \A c \in Context \ {t} : at[c] \notin Unlocked /\ at'[c] = at[c] /\ mail'[c] = mail[c]
    BY <1>6, <1>8
  <2> QED
    BY <1>1, <1>5, <1>6, <1>8, <1>9, <1>11, <2>1, <2>2, LoneStays
<1>13. MbSendingOf(t)' = None /\ MbSendingOf(t) = None
  BY <1>4, <1>6 DEF MbSendingOf, Sending
<1> QED
  BY <1>12, <1>13

(* Every step of a thread of a mailbox is its own.                          *)
LEMMA ThreadMoves ==
  ASSUME Waits, NEW t \in Thread,
         \/ \E lim \in Limits : \/ \E v \in Mail : MbSendWait(t, v, lim)
                               \/ MbRecvWait(t, lim)
         \/ MbSendRetest(t) \/ MbSendAgain(t)
         \/ MbStore(t) \/ MbIn(t) \/ MbCountUp(t) \/ MbWakeRecv(t)
         \/ MbRecvRetest(t) \/ MbRecvAgain(t)
         \/ MbOut(t) \/ MbCountDown(t) \/ MbWakeSend(t)
  PROVE  \A c \in Context \ {t} : at'[c] = at[c]
<1>1. \E to : at' = [at EXCEPT ![t] = to]
  BY DEF MbSendWait, MbRecvWait, MbSendRetest, MbSendAgain, MbStore, MbIn, MbCountUp,
         MbWakeRecv, MbRecvRetest, MbRecvAgain, MbOut, MbCountDown, MbWakeSend,
         Wait, Goto, Return
<1>2. at = [c \in Context |-> at[c]]
  BY DEF Waits
<1> QED
  BY <1>1, <1>2

(* rt_mb_send_wait, rt_mb_urgent, rt_mb_recv and RT_IPC_CMD_RESET, a thread *)
(* behind its wait being alone.                                             *)
LEMMA MailboxUses ==
  ASSUME MbRaces = FALSE, MbInv, Waits, object = "mailbox", object' = object, MailboxStep
  PROVE  MbInv' /\ MbChannelStep
<1>1. NoneBehind \/ \E t \in Thread : at[t] \in Unlocked /\ at'[t] # at[t]
  BY DEF MailboxStep, Quiet, NoneBehind
<1>2. ASSUME NEW c \in Context, at' = at,
             \/ \E v \in Mail : MbSend(c, v) \/ MbUrgent(c, v)
             \/ MbRecv(c)
             \/ MbReset(c)
      PROVE  MbInv' /\ MbChannelStep
  <2>1. NoneBehind
    BY <1>1, <1>2
  <2>2. ASSUME NEW v \in Mail, MbSend(c, v) PROVE MbInv' /\ MbChannelStep
    BY <2>1, <2>2, SendSends
  <2>3. ASSUME NEW v \in Mail, MbUrgent(c, v) PROVE MbInv' /\ MbChannelStep
    BY <2>1, <2>3, UrgentSends
  <2>4. CASE MbRecv(c)
    BY <2>1, <2>4, RecvReceives
  <2>5. CASE MbReset(c)
    <3>1. /\ mbEntry' = 0 /\ inOffset' = 0 /\ outOffset' = 0
          /\ UNCHANGED <<msgPool, mail, at>>
      BY <2>5 DEF MbReset
    <3>2. msgPool' \in [Ring -> Mail \union {None}] /\ NoneBehind'
      BY <2>1, <3>1 DEF MbInv, MailboxTypes, MailboxTypeOK, Ring, NoneBehind
    <3> QED
      BY <2>1, <3>1, <3>2, EmptiedClears
  <2> QED
    BY <1>2, <2>2, <2>3, <2>4, <2>5
<1>3. ASSUME NEW t \in Thread,
             \/ \E lim \in Limits : \/ \E v \in Mail : MbSendWait(t, v, lim)
                                   \/ MbRecvWait(t, lim)
             \/ MbSendRetest(t) \/ MbSendAgain(t)
             \/ MbStore(t) \/ MbIn(t) \/ MbCountUp(t) \/ MbWakeRecv(t)
             \/ MbRecvRetest(t) \/ MbRecvAgain(t)
             \/ MbOut(t) \/ MbCountDown(t) \/ MbWakeSend(t)
      PROVE  MbInv' /\ MbChannelStep
  <2>1. \A c \in Context \ {t} : at'[c] = at[c]
    BY <1>3, ThreadMoves
  <2>2. Lone(t)
    <3>1. CASE NoneBehind
      BY <3>1 DEF NoneBehind, Lone
    <3>2. CASE ~NoneBehind
      <4>1. t \in Context /\ at[t] \in Unlocked
        BY <1>1, <2>1, <3>2 DEF Context
      <4> QED
        BY <4>1 DEF MbInv, Alone, Lone
    <3> QED
      BY <3>1, <3>2
  <2>3. CASE MbSendRetest(t)
    BY <2>2, <2>3, RetestOffers
  <2>4. CASE MbStore(t)
    BY <2>2, <2>4, StoreStays
  <2>5. CASE MbIn(t)
    BY <2>2, <2>5, InStays
  <2>6. CASE MbCountUp(t)
    BY <2>2, <2>6, CountUpPuts
  <2>7. CASE MbOut(t)
    BY <2>2, <2>7, OutGets
  <2>8. CASE MbCountDown(t)
    BY <2>2, <2>8, CountDownDelivers
  <2>9. CASE \/ \E v \in Mail, lim \in Limits : MbSendWait(t, v, lim)
             \/ \E lim \in Limits : MbRecvWait(t, lim)
             \/ MbSendAgain(t) \/ MbWakeRecv(t)
             \/ MbRecvRetest(t) \/ MbRecvAgain(t) \/ MbWakeSend(t)
    BY <2>2, <2>9, AsideStays
  <2> QED
    BY <1>3, <2>3, <2>4, <2>5, <2>6, <2>7, <2>8, <2>9
<1>4. ASSUME NEW c \in Context,
             \/ \E v \in Mail : MbSend(c, v) \/ MbUrgent(c, v)
             \/ MbRecv(c)
             \/ MbReset(c)
      PROVE  at' = at
  BY <1>4 DEF MbSend, MbUrgent, MbRecv, MbReset
<1> QED
  BY <1>2, <1>3, <1>4 DEF MailboxStep, MailboxNext

-----------------------------------------------------------------------------
(* The steps that use no mailbox *)

\* Where contexts go that use another object.
Elsewhere == {"idle", "mutex", "event", "mqRecv", "mqSend", "mqFill", "mqUrgent", "mqCopy",
              "pool", "end", "wakeFirst", "wakeSecond", "halt"}

(* The calls on the other objects go there.                                 *)
LEMMA OthersMove ==
  ASSUME Waits, MutexNext \/ EventNext \/ MessageQueueNext \/ MemPoolNext
  PROVE  \A c \in Context : at'[c] = at[c] \/ at'[c] \in Elsewhere
<1>1. at' = at \/ \E d, to : at' = [at EXCEPT ![d] = to] /\ to \in Elsewhere
  <2>1. CASE MutexNext
    <3>1. PICK t \in Thread :
            \/ MutexTake(t) \/ MutexTakeAgain(t) \/ MutexReleaseOne(t) \/ MutexFree(t)
            \/ \E lim \in Limits : MutexBlock(t, lim)
            \/ MutexTaken(t)
            \/ MutexHandOver(t)
      BY <2>1 DEF MutexNext
    <3> QED
      BY <3>1 DEF MutexTake, MutexTakeAgain, MutexReleaseOne, MutexFree, MutexBlock,
                  MutexTaken, MutexHandOver, Wait, Return, Elsewhere
  <2>2. CASE EventNext
    <3>1. ASSUME NEW c \in Context,
                 EventReset(c) \/ \E sent \in SUBSET Bit : EventSend(c, sent)
          PROVE  at' = at
      BY <3>1 DEF EventReset, EventSend
    <3>2. ASSUME NEW t \in Thread, NEW want \in SUBSET Bit, NEW how \in Info,
                 EventRecv(t, want, how)
          PROVE  at' = at
      BY <3>2 DEF EventRecv
    <3>3. ASSUME NEW t \in Thread, NEW want \in SUBSET Bit, NEW how \in Info,
                 NEW lim \in Limits, EventWait(t, want, how, lim)
          PROVE  at' = [at EXCEPT ![t] = "event"]
      BY <3>3 DEF EventWait, Wait
    <3>4. ASSUME NEW t \in Thread, EventReturn(t) PROVE at' = [at EXCEPT ![t] = "idle"]
      BY <3>4 DEF EventReturn, Return
    <3> QED
      BY <2>2, <3>1, <3>2, <3>3, <3>4 DEF EventNext, Elsewhere
  <2>3. CASE MessageQueueNext
    BY <2>3, ZenonT(30) DEF MessageQueueNext, MqTake, MqSendWait, MqLink, MqLinkUrgent, MqUnlink,
                MqRecvWait, MqFree, MqTooLate, MqReset, Wait, Goto, Return, Elsewhere
  <2>4. CASE MemPoolNext
    BY <2>4 DEF MemPoolNext, MpAlloc, MpFree, MpWait, MpTooLate, Wait, Return, Elsewhere
  <2> QED
    BY <2>1, <2>2, <2>3, <2>4
<1>2. at = [c \in Context |-> at[c]]
  BY DEF Waits
<1> QED
  BY <1>1, <1>2

(* A step that leaves the ring alone while nobody is behind a wait.         *)
LEMMA RingRests ==
  ASSUME MbInv, NoneBehind, UNCHANGED <<msgPool, inOffset, outOffset, mbEntry>>,
         \A c \in Context : \/ at'[c] = at[c] /\ mail'[c] = mail[c]
                            \/ at'[c] \in Elsewhere,
         mail' \in [Context -> Mail \union {None}]
  PROVE  MbInv' /\ MbChannelStep
<1>1. /\ mbEntry \in 0 .. MbSize /\ Filled = mbEntry
      /\ inOffset = Slot(outOffset, mbEntry)
      /\ MbContent = Mails(msgPool, outOffset, mbEntry)
  BY NoneBehindCounts
<1>2. /\ NoneBehind'
      /\ \A t \in Thread : at'[t] = "mbSend" => mail'[t] \in Mail
  <2>1. ASSUME NEW c \in Context PROVE at'[c] \notin Unlocked
    <3>1. CASE at'[c] = at[c]
      BY <3>1 DEF NoneBehind
    <3>2. CASE at'[c] \in Elsewhere
      BY <3>2 DEF Elsewhere, Unlocked
    <3> QED
      BY <3>1, <3>2
  <2>2. \A t \in Thread : at'[t] = "mbSend" => at[t] = "mbSend" /\ mail'[t] = mail[t]
    BY DEF Elsewhere, Context
  <2> QED
    BY <2>1, <2>2 DEF NoneBehind, MbInv, StageFits
<1>3. MailboxTypes'
  BY DEF MbInv, MailboxTypes, MailboxTypeOK
<1>4. /\ inOffset' = Slot(outOffset', mbEntry')
      /\ \A i \in Ring : i < mbEntry' => msgPool'[Slot(outOffset', i)] \in Mail
  BY <1>1 DEF MbInv, RingFits, Slot
<1>5. /\ MbInv' /\ MbContent' = Mails(msgPool', outOffset', mbEntry')
      /\ MbSending' = MbSending /\ MbReceiving' = MbReceiving
  BY <1>2, <1>3, <1>4, LockedSection
<1>6. Mails(msgPool', outOffset', mbEntry') = Mails(msgPool, outOffset, mbEntry)
  BY DEF Mails, Slot
<1> QED
  BY <1>1, <1>5, <1>6 DEF MbChannelStep

(* While another object is in use nobody is in the mailbox.                 *)
LEMMA ElsewhereNoneBehind ==
  ASSUME MbInv, object # "mailbox" PROVE NoneBehind
BY DEF MbInv, Alone, NoneBehind

(* A new mailbox is empty, and so is the one at the start.                  *)
LEMMA InitMbInv == ASSUME Init PROVE MbInv /\ MailboxChannel!Init
<1>1. /\ MailboxFresh(msgPool, inOffset, outOffset, mbEntry)
      /\ at = [c \in Context |-> "idle"] /\ mail = [c \in Context |-> None]
  BY DEF Init, WaitingInit
<1>2. /\ msgPool \in [Ring -> Mail \union {None}]
      /\ inOffset = 0 /\ outOffset = 0 /\ mbEntry = 0
  BY <1>1 DEF MailboxFresh, Ring
<1>3. NoneBehind /\ Alone
  BY <1>1 DEF NoneBehind, Alone, Unlocked, Context
<1>4. TakenOf(at) = 0 /\ AddedOf(at) = 0
  <2>1. \A u \in Thread : at[u] \notin Unlocked
    BY <1>3 DEF NoneBehind, Context
  <2> QED
    BY <2>1, CountsOfNone
<1>5. 0 \in Ring /\ Slot(0, 0) = 0 /\ Filled = 0
  BY <1>2, <1>4, MailboxConstants DEF Slot, Ring, Filled
<1>6. RingFits
  <2>1. \A i \in Ring : ~(i < Filled)
    BY <1>5 DEF Ring
  <2>2. inOffset = Slot(outOffset, Filled + AddedOf(at))
    BY <1>2, <1>4, <1>5
  <2> QED
    BY <2>1, <2>2 DEF RingFits
<1>7. MailboxTypes
  <2>1. mbEntry \in Nat /\ mbEntry <= MbSize
    BY <1>2, MailboxConstants
  <2> QED
    BY <1>1, <1>2, <1>5, <2>1 DEF MailboxTypes, MailboxTypeOK, Ring
<1>8. \A t \in Thread : StageFits(t)
  <2>1. \A t \in Thread : at[t] = "idle"
    BY <1>1 DEF Context
  <2> QED
    BY <2>1 DEF StageFits, Sending
<1>9. MbInv
  BY <1>3, <1>6, <1>7, <1>8 DEF MbInv
<1>10. MbContent = <<>>
  <2>1. MbContent = Mails(msgPool, outOffset, mbEntry)
    BY <1>3, <1>9, NoneBehindCounts
  <2> QED
    BY <1>2, <2>1 DEF Mails
<1>11. \A c \in Context : at[c] \notin Sending /\ at[c] # "mbCountDown"
  BY <1>1 DEF Sending
<1>12. /\ MbSending = [c \in Context |-> None]
       /\ MbReceiving = [c \in Context |-> None]
  BY <1>11 DEF MbSending, MbReceiving, Sending
<1> QED
  BY <1>9, <1>10, <1>12 DEF MailboxChannel!Init

(* Timeouts, errors and the end of an object leave the mails alone; another *)
(* object is empty.                                                         *)
LEMMA MailboxAges ==
  ASSUME MbRaces = FALSE, IInv, MbInv, Waits, Typed, Errors, NEW t \in Thread,
         Expire(t) \/ ReturnError(t) \/ EndStep(t)
  PROVE  MbInv' /\ MbChannelStep
<1>1. /\ mail \in [Context -> Mail \union {None}] /\ t \in Context
      /\ at = [c \in Context |-> at[c]]
  BY DEF MbInv, MailboxTypes, MailboxTypeOK, Context, Waits
<1>2. CASE Expire(t)
  <2>1. /\ NoneBehind /\ at' = at
        /\ UNCHANGED <<msgPool, inOffset, outOffset, mbEntry, mail>>
    BY <1>2 DEF Expire, Quiet, NoneBehind, Timeout, objectVars, mailboxVars
  <2> QED
    BY <1>1, <2>1, RingRests
<1>3. CASE ReturnError(t)
  <2>1. /\ NoneBehind /\ at' = [at EXCEPT ![t] = "idle"]
        /\ mail' = [mail EXCEPT ![t] = None]
        /\ UNCHANGED <<msgPool, inOffset, outOffset, mbEntry>>
    BY <1>3 DEF ReturnError, Quiet, NoneBehind, GiveUp, Return
  <2>2. mail' \in [Context -> Mail \union {None}]
    BY <1>1, <2>1
  <2>3. \A c \in Context : \/ at'[c] = at[c] /\ mail'[c] = mail[c]
                           \/ at'[c] \in Elsewhere
    BY <1>1, <2>1 DEF Elsewhere
  <2> QED
    BY <2>1, <2>2, <2>3, RingRests
<1>4. CASE EndStep(t)
  <2>1. /\ UNCHANGED <<mailboxVars, messageQueueVars, memPoolVars>>
        /\ at[t] \in {"idle"} \union Ending /\ at'[t] \in {"idle"} \union Ending
        /\ \A c \in Context \ {t} :
             /\ at'[c] = at[c]
             /\ at[c] = "idle" \/ (c \in Thread /\ at[c] \in List)
    BY <1>4, EndMoves
  <2>2. UNCHANGED <<msgPool, inOffset, outOffset, mbEntry, mail>>
    BY <2>1 DEF mailboxVars
  <2>3. NoneBehind
    <3>1. Unlocked \intersect ({"idle"} \union Ending \union List) = {}
      BY DEF Unlocked, Ending, List
    <3> QED
      BY <2>1, <3>1 DEF NoneBehind
  <2>4. \A c \in Context : (at'[c] = at[c] /\ mail'[c] = mail[c]) \/ at'[c] \in Elsewhere
    BY <2>1, <2>2 DEF Elsewhere, Ending
  <2> QED
    BY <1>1, <2>2, <2>3, <2>4, RingRests
<1> QED
  BY <1>2, <1>3, <1>4

(* Nothing happens.                                                         *)
LEMMA StayKeepsMbInv ==
  ASSUME MbInv, UNCHANGED vars
  PROVE  MbInv' /\ UNCHANGED <<MbContent, MbSending, MbReceiving>>
<1>1. UNCHANGED <<object, at, msgPool, inOffset, outOffset, mbEntry, mail>>
  BY DEF vars, threadVars, objectVars, mailboxVars
<1>2. UNCHANGED <<MbContent, MbSending, MbReceiving>>
  BY <1>1 DEF MbContent, Leaving, MbSending, MbReceiving
<1>3. Alone' /\ MailboxTypes'
  BY <1>1 DEF MbInv, Alone, MailboxTypes, MailboxTypeOK
<1>4. RingFits'
  BY <1>1 DEF MbInv, RingFits, Filled, TakenOf, AddedOf, Slot
<1>5. \A t \in Thread : StageFits(t)'
  BY <1>1 DEF MbInv, StageFits, Slot
<1> QED
  BY <1>2, <1>3, <1>4, <1>5 DEF MbInv

(* Every step keeps the invariant and is a step of the channel or none.     *)
LEMMA NextKeepsMbInv ==
  ASSUME MbRaces = FALSE, IInv, QInv, MbInv, Next PROVE MbInv' /\ MbChannelStep
<1>1. /\ Waits /\ Typed /\ Errors
      /\ mail \in [Context -> Mail \union {None}]
  BY DEF IInv, QInv, MbInv, MailboxTypes, MailboxTypeOK
<1>2. CASE UseMailbox /\ UNCHANGED <<object, flag>>
  BY <1>1, <1>2, MailboxUses DEF UseMailbox
<1>3. CASE (UseMutex \/ UseEvent \/ UseQueue \/ UsePool) /\ UNCHANGED <<object, flag>>
  <2>1. /\ object # "mailbox" /\ UNCHANGED mailboxVars
        /\ MutexNext \/ EventNext \/ MessageQueueNext \/ MemPoolNext
    BY <1>3 DEF UseMutex, UseEvent, UseQueue, UsePool
  <2>2. \A c \in Context : at'[c] = at[c] \/ at'[c] \in Elsewhere
    BY <1>1, <2>1, OthersMove
  <2>3. NoneBehind
    BY <2>1, ElsewhereNoneBehind
  <2>4. mail' = mail /\ UNCHANGED <<msgPool, inOffset, outOffset, mbEntry>>
    BY <2>1 DEF mailboxVars
  <2> QED
    BY <1>1, <2>2, <2>3, <2>4, RingRests
<1>4. ASSUME NEW t \in Thread, Expire(t) \/ ReturnError(t) \/ EndStep(t)
      PROVE  MbInv' /\ MbChannelStep
  BY <1>1, <1>4, MailboxAges
<1>5. CASE Create
  <2>1. /\ object = None /\ MailboxFresh(msgPool', inOffset', outOffset', mbEntry')
        /\ UNCHANGED <<at, mail>>
    BY <1>5 DEF Create
  <2>2. NoneBehind /\ NoneBehind'
    <3>1. object # "mailbox"
      BY <2>1, IpcConstants DEF ListsOf
    <3> QED
      BY <2>1, <3>1, ElsewhereNoneBehind DEF NoneBehind
  <2>3. /\ mbEntry' = 0 /\ inOffset' = 0 /\ outOffset' = 0
        /\ msgPool' \in [Ring -> Mail \union {None}]
    BY <2>1 DEF MailboxFresh, Ring
  <2> QED
    BY <2>1, <2>2, <2>3, EmptiedClears
<1>6. CASE UNCHANGED vars
  BY <1>6, StayKeepsMbInv DEF MbChannelStep
<1> QED
  BY <1>2, <1>3, <1>4, <1>5, <1>6 DEF Next, EndStep

\* So the invariant holds in every behaviour.
LEMMA MbInvHolds == ASSUME MbRaces = FALSE PROVE Spec => [](IInv /\ QInv /\ MbInv)
<1>1. ASSUME IInv, QInv, MbInv, [Next]_vars PROVE MbInv'
  <2>1. CASE Next
    BY <1>1, <2>1, NextKeepsMbInv, Zenon
  <2>2. CASE UNCHANGED vars
    BY <1>1, <2>2, StayKeepsMbInv
  <2> QED
    BY <1>1, <2>1, <2>2
<1> QED
  BY <1>1, QInvHolds, InitMbInv, PTL DEF Spec

(* rt_mb_send_wait, rt_mb_urgent and rt_mb_recv implement a bounded channel *)
(* although a thread behind its wait works on the ring step by step: every  *)
(* mail is handed out once and in order.  Where others go on meanwhile run  *)
(* Mailbox_wait shows the mailbox count more mails than it has slots.       *)
THEOREM MailboxIsChannel ==
  ASSUME MbRaces = FALSE PROVE Spec => MailboxImplementsChannel
<1>1. Init => MailboxChannel!Init
  BY InitMbInv
<1>2. ASSUME IInv, QInv, MbInv, [Next]_vars
      PROVE  [MailboxChannel!Next]_(MailboxChannel!vars)
  <2>1. CASE Next
    <3>1. MbChannelStep
      BY <1>2, <2>1, NextKeepsMbInv, Zenon
    <3> QED
      BY <3>1 DEF MbChannelStep, MailboxChannel!vars
  <2>2. CASE UNCHANGED vars
    BY <1>2, <2>2, StayKeepsMbInv DEF MailboxChannel!vars
  <2> QED
    BY <1>2, <2>1, <2>2
<1> QED
  BY <1>1, <1>2, MbInvHolds, PTL DEF Spec, MailboxImplementsChannel, MailboxChannel!Spec

(* A sender that finds the mailbox full waits, also when it was woken       *)
(* before: no mailbox counts more mails than it has slots.                  *)
THEOREM MailboxIsBounded == ASSUME MbRaces = FALSE PROVE Spec => []MailboxBounded
<1>1. MbInv => MailboxBounded
  BY DEF MbInv, MailboxTypes, MailboxBounded
<1> QED
  BY <1>1, MbInvHolds, PTL

-----------------------------------------------------------------------------
(* The types of all objects *)

(* Every step of a mailbox keeps its offsets in the ring, also where others *)
(* go on while a thread is behind its wait.                                 *)
LEMMA MailboxKeepsTypes == ASSUME MailboxTypeOK, MailboxNext PROVE MailboxTypeOK'
<1>1. /\ msgPool \in [Ring -> Mail \union {None}]
      /\ inOffset \in Ring /\ outOffset \in Ring /\ mbEntry \in Nat
      /\ mail \in [Context -> Mail \union {None}] /\ Thread \subseteq Context
      /\ 0 \in Ring
  BY MailboxConstants DEF MailboxTypeOK, Ring, Context
<1>2. /\ After(inOffset) \in Ring /\ After(outOffset) \in Ring /\ Before(outOffset) \in Ring
  BY <1>1, SlotsFollow
<1>3. /\ \A v \in Mail : [msgPool EXCEPT ![inOffset] = v] \in [Ring -> Mail \union {None}]
      /\ \A v \in Mail : [msgPool EXCEPT ![Before(outOffset)] = v] \in [Ring -> Mail \union {None}]
      /\ \A c \in Context :
           [msgPool EXCEPT ![inOffset] = mail[c]] \in [Ring -> Mail \union {None}]
      /\ \A c \in Context, v \in Mail \union {None} :
           [mail EXCEPT ![c] = v] \in [Context -> Mail \union {None}]
      /\ msgPool[outOffset] \in Mail \union {None}
  BY <1>1, <1>2
<1>4. \/ msgPool' = msgPool
      \/ \E v \in Mail : msgPool' = [msgPool EXCEPT ![inOffset] = v]
      \/ \E v \in Mail : msgPool' = [msgPool EXCEPT ![Before(outOffset)] = v]
      \/ \E c \in Context : msgPool' = [msgPool EXCEPT ![inOffset] = mail[c]]
  <2>1. ASSUME NEW c \in Context, NEW v \in Mail, MbSend(c, v) \/ MbUrgent(c, v)
        PROVE  \/ msgPool' = [msgPool EXCEPT ![inOffset] = v]
               \/ msgPool' = [msgPool EXCEPT ![Before(outOffset)] = v]
    BY <2>1 DEF MbSend, MbUrgent
  <2>2. ASSUME NEW t \in Thread, MbStore(t)
        PROVE  msgPool' = [msgPool EXCEPT ![inOffset] = mail[t]]
    BY <2>2 DEF MbStore
  <2>3. ASSUME NEW c \in Context, MbRecv(c) \/ MbReset(c) PROVE msgPool' = msgPool
    BY <2>3 DEF MbRecv, MbReset
  <2>4. ASSUME NEW t \in Thread,
               \/ \E lim \in Limits : \/ \E v \in Mail : MbSendWait(t, v, lim)
                                     \/ MbRecvWait(t, lim)
               \/ MbSendRetest(t) \/ MbSendAgain(t) \/ MbIn(t) \/ MbCountUp(t)
               \/ MbWakeRecv(t) \/ MbRecvRetest(t) \/ MbRecvAgain(t)
               \/ MbOut(t) \/ MbCountDown(t) \/ MbWakeSend(t)
        PROVE  msgPool' = msgPool
    BY <2>4 DEF MbSendWait, MbRecvWait, MbSendRetest, MbSendAgain, MbIn, MbCountUp,
       MbWakeRecv, MbRecvRetest, MbRecvAgain, MbOut, MbCountDown, MbWakeSend, mailboxVars
  <2> QED
    BY <1>1, <2>1, <2>2, <2>3, <2>4 DEF MailboxNext
<1> DEFINE RangesKept ==
      /\ inOffset' \in {inOffset, After(inOffset), 0}
      /\ outOffset' \in {outOffset, After(outOffset), Before(outOffset), 0}
      /\ \/ mbEntry' \in {mbEntry, mbEntry + 1, 0}
         \/ mbEntry > 0 /\ mbEntry' = mbEntry - 1
<1>5. RangesKept
  <2>1. ASSUME NEW c \in Context,
               \/ \E v \in Mail : MbSend(c, v) \/ MbUrgent(c, v)
               \/ MbRecv(c) \/ MbReset(c)
        PROVE  RangesKept
    BY <2>1 DEF MbSend, MbUrgent, MbRecv, MbReset
  <2>2. ASSUME NEW t \in Thread,
               \/ \E lim \in Limits : \/ \E v \in Mail : MbSendWait(t, v, lim)
                                     \/ MbRecvWait(t, lim)
               \/ MbSendRetest(t) \/ MbSendAgain(t)
               \/ MbStore(t) \/ MbIn(t) \/ MbCountUp(t) \/ MbWakeRecv(t)
               \/ MbRecvRetest(t) \/ MbRecvAgain(t)
               \/ MbOut(t) \/ MbCountDown(t) \/ MbWakeSend(t)
        PROVE  RangesKept
    BY <2>2 DEF MbSendWait, MbRecvWait, MbSendRetest, MbSendAgain, MbStore, MbIn, MbCountUp,
       MbWakeRecv, MbRecvRetest, MbRecvAgain, MbOut, MbCountDown, MbWakeSend, mailboxVars
  <2> QED
    BY <2>1, <2>2 DEF MailboxNext
<1>6. mail' = mail \/ \E c \in Context, v \in Mail \union {None} : mail' = [mail EXCEPT ![c] = v]
  <2>1. ASSUME NEW c \in Context,
               \/ \E v \in Mail : MbSend(c, v) \/ MbUrgent(c, v)
               \/ MbRecv(c) \/ MbReset(c)
        PROVE  mail' = mail
    BY <2>1 DEF MbSend, MbUrgent, MbRecv, MbReset
  <2>2. ASSUME NEW t \in Thread,
               \/ \E lim \in Limits : MbRecvWait(t, lim)
               \/ MbSendAgain(t) \/ MbStore(t) \/ MbIn(t) \/ MbWakeRecv(t)
               \/ MbRecvAgain(t) \/ MbOut(t) \/ MbWakeSend(t)
        PROVE  mail' = mail
    BY <2>2 DEF MbRecvWait, MbSendAgain, MbStore, MbIn, MbWakeRecv, MbRecvAgain, MbOut,
       MbWakeSend, mailboxVars
  <2>3. ASSUME NEW t \in Thread,
               \/ \E lim \in Limits : \E v \in Mail : MbSendWait(t, v, lim)
               \/ MbSendRetest(t) \/ MbCountUp(t) \/ MbRecvRetest(t) \/ MbCountDown(t)
        PROVE  mail' = mail \/ \E v \in Mail \union {None} : mail' = [mail EXCEPT ![t] = v]
    BY <1>3, <2>3 DEF MbSendWait, MbSendRetest, MbCountUp, MbRecvRetest, MbCountDown
  <2> QED
    BY <1>1, <2>1, <2>2, <2>3 DEF MailboxNext
<1>7. msgPool' \in [Ring -> Mail \union {None}]
  BY <1>1, <1>3, <1>4
<1>8. mail' \in [Context -> Mail \union {None}]
  BY <1>1, <1>3, <1>6
<1>9. inOffset' \in Ring /\ outOffset' \in Ring /\ mbEntry' \in Nat
  BY <1>1, <1>2, <1>5
<1> QED
  BY <1>7, <1>8, <1>9 DEF MailboxTypeOK, Ring

LEMMA MailboxTypesHold == Spec => []MailboxTypeOK
<1>1. ASSUME Init PROVE MailboxTypeOK
  BY <1>1, InitMbInv DEF MbInv, MailboxTypes
<1>2. ASSUME MailboxTypeOK, [Next]_vars PROVE MailboxTypeOK'
  <2>1. CASE UseMailbox
    BY <1>2, <2>1, MailboxKeepsTypes DEF UseMailbox, MailboxStep
  <2>2. CASE Create
    <3>1. 0 \in 0 .. MbSize - 1
      BY MailboxConstants
    <3>2. MailboxFresh(msgPool', inOffset', outOffset', mbEntry') /\ mail' = mail
      BY <2>2 DEF Create
    <3> QED
      BY <1>2, <3>1, <3>2 DEF MailboxFresh, MailboxTypeOK
  <2>3. ASSUME NEW t \in Thread, ReturnError(t) PROVE MailboxTypeOK'
    <3>1. mail' = [mail EXCEPT ![t] = None]
          /\ UNCHANGED <<msgPool, inOffset, outOffset, mbEntry>>
      BY <2>3 DEF ReturnError
    <3> QED
      BY <1>2, <3>1 DEF MailboxTypeOK
  <2>4. CASE UNCHANGED mailboxVars
    BY <1>2, <2>4 DEF mailboxVars, MailboxTypeOK
  <2>5. ASSUME NEW t \in Thread, Expire(t) \/ EndStep(t) PROVE UNCHANGED mailboxVars
    BY <2>5 DEF Expire, EndStep, Detach, EndTest, EndWake, EndFail, EndOver, objectVars
  <2>6. UseMutex \/ UseEvent \/ UseQueue \/ UsePool => UNCHANGED mailboxVars
    BY DEF UseMutex, UseEvent, UseQueue, UsePool
  <2>7. UNCHANGED vars => UNCHANGED mailboxVars
    BY DEF vars, objectVars
  <2> QED
    BY <1>2, <2>1, <2>2, <2>3, <2>4, <2>5, <2>6, <2>7 DEF Next, EndStep
<1> QED
  BY <1>1, <1>2, PTL DEF Spec

(* Every variable of every object keeps its type, and the counters fit: no  *)
(* sequence of calls, timeouts and handlers takes mutex->value, mutex->hold,*)
(* mq->entry or mp->block_free_count out of its range.                      *)
THEOREM IpcTypes == Spec => []TypeOK
<1>1. ASSUME IInv, Asks, QInv, Blocks, MailboxTypeOK PROVE TypeOK
  <2>1. WaitingTypeOK
    BY <1>1 DEF IInv, Waits, Typed, Inherits, Error, Limit, WaitingTypeOK
  <2>2. MutexTypeOK /\ EventTypeOK
    BY <1>1 DEF IInv, Inherits, Asks
  <2>3. MessageQueueTypeOK
    <3> DEFINE F == Chain(link, free)
               Q == Chain(link, head)
    <3>1. Chains(F, Q) /\ CellTypes
      BY <1>1 DEF QInv, Cells
    <3> HIDE DEF F, Q
    <3>2. /\ Q \in Seq(Cell) /\ Distinct(Q) /\ mqEntry = Len(Q) /\ Len(Q) \in Nat
          /\ \A i \in 1 .. Len(Q) : Q[i] \in Cell
      BY <3>1 DEF Chains, Linked
    <3>3. {head, tail, free} \subseteq Cell \union {None}
      BY <3>1, <3>2 DEF Chains, Linked
    <3>4. Len(Q) <= Cardinality(Cell) /\ Cardinality(Cell) \in Nat
      BY <3>2, MessageQueueConstants, DistinctLength, FS_CardinalityType
    <3>5. mqEntry \in 0 .. Cardinality(Cell)
      BY <3>2, <3>4
    <3> QED
      BY <3>1, <3>3, <3>5 DEF CellTypes, MessageQueueTypeOK
  <2>4. MemPoolTypeOK
    <3>1. /\ blockList \in Seq(Block) /\ Distinct(blockList) /\ freeCount = Len(blockList)
          /\ held \subseteq Block /\ Len(blockList) \in Nat
      BY <1>1 DEF Blocks
    <3>2. Len(blockList) <= Cardinality(Block) /\ Cardinality(Block) \in Nat
      BY <3>1, MemPoolConstants, DistinctLength, FS_CardinalityType
    <3> QED
      BY <3>1, <3>2 DEF MemPoolTypeOK
  <2> QED
    BY <1>1, <2>1, <2>2, <2>3, <2>4 DEF TypeOK
<1> QED
  BY <1>1, AsksHolds, QInvHolds, BlocksHold, MailboxTypesHold, PTL

-----------------------------------------------------------------------------
(* No wake-up is lost *)

\* Where a thread is that has taken what list l waits for, or made it
\* available, and has yet to say so.
Waking(l) ==
  IF l = "mbRecv" THEN {"mbOut", "mbCountDown", "mbWakeRecv"}
  ELSE IF l = "mbSend" THEN {"mbStore", "mbIn", "mbCountUp", "mbWakeSend"}
  ELSE {}

\* NoneForgotten, for one list.
Awaited(l) == waiters[l] # <<>> => Available(l) <= Cardinality(OnTheWay(l))

\* A thread that is suspended has no error yet.
Unanswered == \A t \in Thread : stat[t] = "SUSPEND" => error[t] = "EOK"

(* Who is on the way, and who is after a step.                              *)
LEMMA OnTheWayIs ==
  ASSUME NEW l \in List
  PROVE  \A c : c \in OnTheWay(l) <=>
           /\ c \in Context
           /\ at[c] \in Waking(l) \/ (c \in Thread /\ Woken(c, l))
BY DEF OnTheWay, Waking, List

\* The same behind the step.
LEMMA OnTheWayThen ==
  ASSUME NEW l \in List
  PROVE  \A c : c \in OnTheWay(l)' <=>
           /\ c \in Context
           /\ \/ at'[c] \in Waking(l)
              \/ c \in Thread /\ at'[c] = l /\ stat'[c] = "READY" /\ error'[c] = "EOK"
BY DEF OnTheWay, Waking, List, Woken

(* They are threads, so they can be counted.                                *)
LEMMA OnTheWayFinite ==
  ASSUME Alone', NEW l \in List
  PROVE  IsFiniteSet(OnTheWay(l)') /\ Cardinality(OnTheWay(l)') \in Nat
<1>1. Waking(l) \subseteq Unlocked
  BY DEF Waking, Unlocked
<1>2. OnTheWay(l)' \subseteq Thread
  BY <1>1, OnTheWayThen DEF Alone, Context
<1> QED
  BY <1>2, WaitingConstants, FS_Subset, FS_CardinalityType

(* What a step of c alone can do to a set.                                  *)
LEMMA CountLeft ==
  ASSUME NEW A, NEW B, IsFiniteSet(B), NEW c, A \ {c} \subseteq B
  PROVE  /\ Cardinality(A) \in Nat /\ Cardinality(B) \in Nat
         /\ Cardinality(A) - 1 <= Cardinality(B)
         /\ c \notin A \/ c \in B => Cardinality(A) <= Cardinality(B)
         /\ \A h \in B \ A : /\ Cardinality(A) <= Cardinality(B)
                             /\ c \notin A => Cardinality(A) + 1 <= Cardinality(B)
<1>1. /\ IsFiniteSet(B \union {c}) /\ Cardinality(B) \in Nat
      /\ Cardinality(B \union {c}) \in Nat
      /\ Cardinality(B \union {c}) <= Cardinality(B) + 1
  BY FS_AddElement, FS_CardinalityType
<1>2. IsFiniteSet(A) /\ Cardinality(A) \in Nat /\ Cardinality(A) <= Cardinality(B \union {c})
  <2>1. A \subseteq B \union {c}
    OBVIOUS
  <2> QED
    BY <2>1, <1>1, FS_Subset, FS_CardinalityType
<1>3. ASSUME c \notin A \/ c \in B PROVE Cardinality(A) <= Cardinality(B)
  <2>1. A \subseteq B
    BY <1>3
  <2> QED
    BY <2>1, FS_Subset
<1>4. ASSUME NEW h \in B \ A
      PROVE  /\ Cardinality(A) <= Cardinality(B)
             /\ c \notin A => Cardinality(A) + 1 <= Cardinality(B)
  <2>1. /\ IsFiniteSet(B \ {h}) /\ Cardinality(B \ {h}) = Cardinality(B) - 1
        /\ Cardinality(B \ {h}) \in Nat
    BY FS_RemoveElement, FS_CardinalityType
  <2>2. CASE c \notin A
    <3>1. A \subseteq B \ {h}
      BY <2>2
    <3>2. Cardinality(A) <= Cardinality(B \ {h})
      BY <2>1, <3>1, FS_Subset
    <3> QED
      BY <2>1, <3>2, <1>1, <1>2
  <2>3. CASE c \in A
    <3> DEFINE R == A \ {c}
    <3>1. IsFiniteSet(R) /\ Cardinality(R) = Cardinality(A) - 1 /\ Cardinality(R) \in Nat
      BY <2>3, <1>2, FS_RemoveElement, FS_CardinalityType
    <3>2. R \subseteq B \ {h}
      OBVIOUS
    <3> HIDE DEF R
    <3>3. Cardinality(R) <= Cardinality(B \ {h})
      BY <2>1, <3>2, FS_Subset
    <3> QED
      BY <2>1, <2>3, <3>1, <3>3, <1>1, <1>2
  <2> QED
    BY <2>2, <2>3
<1> QED
  BY <1>1, <1>2, <1>3, <1>4

(* Nothing is left to wait for, or nobody waits.                            *)
LEMMA NothingLeft ==
  ASSUME Alone', NEW l \in List, Available(l)' \in Int, Available(l)' <= 0
  PROVE  Awaited(l)'
<1>1. Cardinality(OnTheWay(l)') \in Nat
  BY OnTheWayFinite
<1> QED
  BY <1>1 DEF Awaited

(* A step of c alone, and what becomes available by it.                     *)
LEMMA StepOfOne ==
  ASSUME Alone', NEW l \in List, NEW c, Awaited(l),
         OnTheWay(l) \ {c} \subseteq OnTheWay(l)',
         waiters'[l] # <<>> => waiters[l] # <<>>,
         Available(l) \in Int, Available(l)' \in Int
  PROVE  /\ Available(l)' <= Available(l) - 1 => Awaited(l)'
         /\ /\ Available(l)' <= Available(l)
            /\ c \notin OnTheWay(l) \/ c \in OnTheWay(l)'
            => Awaited(l)'
         /\ \A h \in OnTheWay(l)' \ OnTheWay(l) :
              /\ Available(l)' <= Available(l) => Awaited(l)'
              /\ Available(l)' <= Available(l) + 1 /\ c \notin OnTheWay(l) => Awaited(l)'
<1> DEFINE A == OnTheWay(l)
           a == Available(l)
<1>1. IsFiniteSet(A')
  BY OnTheWayFinite
<1>2. waiters[l] # <<>> => a <= Cardinality(A)
  BY DEF Awaited
<1>3. /\ Cardinality(A) \in Nat /\ Cardinality(A') \in Nat
      /\ Cardinality(A) - 1 <= Cardinality(A')
      /\ c \notin A \/ c \in A' => Cardinality(A) <= Cardinality(A')
      /\ \A h \in A' \ A : /\ Cardinality(A) <= Cardinality(A')
                           /\ c \notin A => Cardinality(A) + 1 <= Cardinality(A')
  BY <1>1, CountLeft
<1>4. Awaited(l)' <=> (waiters'[l] # <<>> => a' <= Cardinality(A'))
  BY DEF Awaited
<1>5. a \in Int /\ a' \in Int
  OBVIOUS
<1> HIDE DEF A, a
<1>6. a' <= a - 1 => Awaited(l)'
  BY <1>2, <1>3, <1>4, <1>5
<1>7. a' <= a /\ (c \notin A \/ c \in A') => Awaited(l)'
  BY <1>2, <1>3, <1>4, <1>5
<1>8. ASSUME NEW h \in A' \ A
      PROVE  /\ a' <= a => Awaited(l)'
             /\ a' <= a + 1 /\ c \notin A => Awaited(l)'
  BY <1>2, <1>3, <1>4, <1>5, <1>8
<1> QED
  BY <1>6, <1>7, <1>8 DEF A, a

-----------------------------------------------------------------------------
(* What a step does to those on the way *)

(* All but c stay on their way.                                             *)
LEMMA OthersGoOn ==
  ASSUME NEW l \in List, NEW c,
         \A d \in Context \ {c} : at'[d] = at[d],
         \A d \in Thread \ {c} : Woken(d, l) => stat'[d] = "READY" /\ error'[d] = "EOK"
  PROVE  OnTheWay(l) \ {c} \subseteq OnTheWay(l)'
<1> SUFFICES ASSUME NEW d \in OnTheWay(l), d # c PROVE d \in OnTheWay(l)'
  OBVIOUS
<1>1. d \in Context /\ at'[d] = at[d]
  BY OnTheWayIs
<1>2. CASE at[d] \in Waking(l)
  BY <1>1, <1>2, OnTheWayThen
<1>3. CASE d \in Thread /\ Woken(d, l)
  BY <1>1, <1>3, OnTheWayThen DEF Woken
<1> QED
  BY <1>2, <1>3, OnTheWayIs

(* One context gets on and wakes nobody.                                    *)
LEMMA GoesOn ==
  ASSUME Waits, Alone', NEW l \in List, Awaited(l), UNCHANGED threadVars,
         NEW c \in Context, NEW to, at' = [at EXCEPT ![c] = to],
         Available(l) \in Int, Available(l)' \in Int
  PROVE  /\ Available(l)' <= Available(l) - 1 => Awaited(l)'
         /\ /\ Available(l)' <= Available(l)
            /\ c \notin OnTheWay(l) \/ c \in OnTheWay(l)'
            => Awaited(l)'
         /\ /\ Available(l)' <= Available(l) + 1
            /\ c \notin OnTheWay(l) /\ c \in OnTheWay(l)'
            => Awaited(l)'
<1>1. waiters' = waiters /\ stat' = stat /\ error' = error
  BY DEF threadVars
<1>2. \A d \in Context \ {c} : at'[d] = at[d]
  BY DEF Waits
<1>3. OnTheWay(l) \ {c} \subseteq OnTheWay(l)'
  BY <1>1, <1>2, OthersGoOn DEF Woken
<1> QED
  BY <1>1, <1>3, StepOfOne

(* rt_thread_resume of the first waiter takes nobody else from their way.   *)
LEMMA FirstLeaves ==
  ASSUME NEW k \in List, ResumeFirst(k), waiters \in [List -> Seq(Thread)]
  PROVE  /\ \A d \in Thread : stat[d] = "READY" => stat'[d] = "READY"
         /\ \A d \in Thread : error'[d] = error[d]
         /\ \A l \in List : waiters'[l] # <<>> => waiters[l] # <<>>
<1>1. \A d \in Thread : error'[d] = error[d]
  BY FirstKeepsErrors
<1>2. CASE waiters[k] = <<>>
  BY <1>1, <1>2 DEF ResumeFirst, threadVars
<1>3. CASE waiters[k] # <<>>
  <2> DEFINE h == Head(waiters[k])
  <2>1. /\ waiters' = [waiters EXCEPT ![k] = UnlinkAll(waiters[k], {h})]
        /\ stat' = [d \in Thread |-> IF d \in {h} THEN "READY" ELSE stat[d]]
    BY <1>3 DEF ResumeFirst, Resume
  <2> HIDE DEF h
  <2> QED
    BY <1>1, <1>3, <2>1
<1> QED
  BY <1>2, <1>3

\* The first waiter is on its way now.
LEMMA FirstWakes ==
  ASSUME Waits, Unanswered, NEW l \in List, waiters[l] # <<>>, ResumeFirst(l),
         NEW c, at[c] # l, \A d \in Context \ {c} : at'[d] = at[d]
  PROVE  \E h \in OnTheWay(l)' : h \notin OnTheWay(l)
<1> DEFINE h == Head(waiters[l])
<1>1. waiters[l] \in Seq(Thread) /\ h \in Members(waiters[l])
  BY DEF Waits, Members
<1>2. h \in Thread /\ stat[h] = "SUSPEND" /\ at[h] = l
  <2>1. h \in Thread
    BY <1>1 DEF Members
  <2> HIDE DEF h
  <2> QED
    BY <2>1, <1>1 DEF Waits
<1>3. stat' = [d \in Thread |-> IF d \in {h} THEN "READY" ELSE stat[d]]
  BY DEF ResumeFirst, Resume
<1>4. error'[h] = error[h]
  BY <1>2, FirstKeepsErrors
<1> HIDE DEF h
<1>5. h \in Context /\ at'[h] = l /\ stat'[h] = "READY" /\ error'[h] = "EOK"
  BY <1>2, <1>3, <1>4 DEF Unanswered, Context
<1>6. l \notin Waking(l)
  BY DEF Waking, List
<1>7. h \notin OnTheWay(l)
  BY <1>2, <1>6, OnTheWayIs DEF Woken
<1>8. h \in OnTheWay(l)'
  BY <1>2, <1>5, OnTheWayThen
<1> QED
  BY <1>7, <1>8

(* c wakes the first who waits in k, on its way out or on its way on.       *)
LEMMA WakesFirst ==
  ASSUME Waits, Unanswered, Alone', NEW k \in List, ResumeFirst(k),
         NEW c \in Context, NEW to, at' = [at EXCEPT ![c] = to], at[c] \notin List,
         NEW l \in List, Awaited(l), Available(l) \in Int, Available(l)' \in Int
  PROVE  /\ Available(l)' <= Available(l) /\ c \notin OnTheWay(l) => Awaited(l)'
         /\ k = l /\ Available(l)' <= Available(l) => Awaited(l)'
         /\ k = l /\ Available(l)' <= Available(l) + 1 /\ c \notin OnTheWay(l) => Awaited(l)'
<1>1. \A d \in Context \ {c} : at'[d] = at[d]
  BY DEF Waits
<1>2. /\ \A d \in Thread : stat[d] = "READY" => stat'[d] = "READY"
      /\ \A d \in Thread : error'[d] = error[d]
      /\ waiters'[l] # <<>> => waiters[l] # <<>>
  BY FirstLeaves DEF Waits
<1>3. OnTheWay(l) \ {c} \subseteq OnTheWay(l)'
  BY <1>1, <1>2, OthersGoOn DEF Woken
<1>4. /\ /\ Available(l)' <= Available(l)
         /\ c \notin OnTheWay(l) \/ c \in OnTheWay(l)'
         => Awaited(l)'
      /\ \A h \in OnTheWay(l)' \ OnTheWay(l) :
           /\ Available(l)' <= Available(l) => Awaited(l)'
           /\ Available(l)' <= Available(l) + 1 /\ c \notin OnTheWay(l) => Awaited(l)'
  BY <1>2, <1>3, StepOfOne
<1>5. CASE waiters[l] = <<>>
  BY <1>2, <1>5 DEF Awaited
<1>6. CASE waiters[l] # <<>> /\ k = l
  <2>1. \E h \in OnTheWay(l)' : h \notin OnTheWay(l)
    BY <1>1, <1>6, FirstWakes
  <2> QED
    BY <1>4, <2>1
<1> QED
  BY <1>4, <1>5, <1>6

(* A thread goes to wait in k, where there is nothing to be had.            *)
LEMMA GoesToWait ==
  ASSUME Waits, Alone', NEW t \in Thread, NEW k \in List, NEW n, NEW lim, Wait(t, k, n, lim),
         NEW l \in List, Awaited(l), Available(l) \in Int, Available(l)' \in Int,
         Available(l)' <= 0 \/ (k # l /\ t \notin OnTheWay(l) /\ Available(l)' <= Available(l))
  PROVE  Awaited(l)'
<1>1. CASE Available(l)' <= 0
  BY <1>1, NothingLeft
<1>2. CASE k # l /\ t \notin OnTheWay(l) /\ Available(l)' <= Available(l)
  <2>1. /\ waiters' = [waiters EXCEPT ![k] = LinkBehind(waiters[k], n, t)]
        /\ stat' = [stat EXCEPT ![t] = "SUSPEND"]
        /\ error' = [error EXCEPT ![t] = "EOK"]
        /\ at' = [at EXCEPT ![t] = k]
    BY DEF Wait
  <2>2. /\ waiters'[l] = waiters[l]
        /\ \A d \in Context \ {t} : at'[d] = at[d]
    BY <1>2, <2>1 DEF Waits
  <2>3. \A d \in Thread \ {t} : Woken(d, l) => stat'[d] = "READY" /\ error'[d] = "EOK"
    <3> TAKE d \in Thread \ {t}
    <3>1. HAVE Woken(d, l)
    <3>2. stat'[d] = stat[d]
      BY <2>1 DEF Waits
    <3>3. error'[d] = error[d] \/ error'[d] = "EOK"
      BY <2>1
    <3> QED
      BY <3>1, <3>2, <3>3 DEF Woken
  <2>4. OnTheWay(l) \ {t} \subseteq OnTheWay(l)'
    BY <2>2, <2>3, OthersGoOn
  <2> QED
    BY <1>2, <2>2, <2>4, StepOfOne
<1> QED
  BY <1>1, <1>2

\* Nobody waits in l any more.
LEMMA AllWoken ==
  ASSUME NEW ls \in SUBSET List, ResumeAll(ls), NEW l \in ls
  PROVE  Awaited(l)'
<1>1. waiters'[l] = <<>>
  BY DEF ResumeAll
<1> QED
  BY <1>1 DEF Awaited

-----------------------------------------------------------------------------
(* The steps of the objects *)

(* What there is of it is counted.                                          *)
LEMMA Counted ==
  ASSUME MbInv, Typed, Blocks, QInv
  PROVE  /\ Available("mbRecv") = mbEntry /\ Available("mbSend") = MbSize - mbEntry
         /\ Available("mqRecv") = mqEntry /\ Available("pool") = freeCount
         /\ mbEntry \in 0 .. MbSize /\ MbSize \in Nat /\ mqEntry \in Nat /\ freeCount \in Nat
<1>1. mbEntry \in 0 .. MbSize /\ MbSize \in Nat
  BY MailboxConstants DEF MbInv, MailboxTypes, MailboxTypeOK
<1>2. mqEntry \in Nat
  BY DEF QInv, Cells, Chains, Linked
<1>3. freeCount \in Nat
  BY DEF Blocks
<1> QED
  BY <1>1, <1>2, <1>3 DEF Available

(* A caller from outside is not on its way, and a caller is not in a list.  *)
LEMMA CallerOutside ==
  ASSUME NEW c \in Context, Idle(c), Waits
  PROVE  /\ \A l \in List : c \notin OnTheWay(l)
         /\ at[c] \notin List
         /\ at = [at EXCEPT ![c] = "idle"]
<1>1. at[c] = "idle" /\ "idle" \notin List
  BY DEF Idle, List
<1>2. \A l \in List : "idle" \notin Waking(l)
  BY DEF Waking
<1>3. \A l \in List : c \notin OnTheWay(l)
  BY <1>1, <1>2, OnTheWayIs DEF Woken
<1>4. at = [at EXCEPT ![c] = "idle"]
  BY <1>1 DEF Waits
<1> QED
  BY <1>1, <1>3, <1>4

(* A mailbox.  A caller that comes adds or takes a mail and tells the other *)
(* side in one section.                                                     *)
LEMMA MailboxCallsAwaited ==
  ASSUME Waits, Unanswered, MbInv, MbInv', NEW c \in Context,
         (\E v \in Mail : MbSend(c, v) \/ MbUrgent(c, v)) \/ MbRecv(c) \/ MbReset(c),
         Awaited("mbRecv"), Awaited("mbSend"),
         Available("mbRecv") = mbEntry, Available("mbSend") = MbSize - mbEntry,
         mbEntry \in 0 .. MbSize, mbEntry' \in 0 .. MbSize
  PROVE  Awaited("mbRecv")' /\ Awaited("mbSend")'
<1>1. /\ Available("mbRecv")' = mbEntry' /\ Available("mbSend")' = MbSize - mbEntry'
      /\ MbSize \in Nat /\ mbEntry \in Nat /\ mbEntry' \in Nat
      /\ "mbRecv" \in List /\ "mbSend" \in List
      /\ Alone'
  BY MailboxConstants DEF Available, List, MbInv
<1>2. Idle(c) /\ (at' = at)
  BY DEF MbSend, MbUrgent, MbRecv, MbReset
<1>3. /\ c \notin OnTheWay("mbRecv") /\ c \notin OnTheWay("mbSend")
      /\ at[c] \notin List
      /\ at' = [at EXCEPT ![c] = "idle"]
  BY <1>1, <1>2, CallerOutside
<1>4. CASE \E v \in Mail : MbSend(c, v) \/ MbUrgent(c, v)
  <2>1. mbEntry' = mbEntry + 1 /\ ResumeFirst("mbRecv")
    BY <1>4 DEF MbSend, MbUrgent
  <2>2. Available("mbRecv")' <= Available("mbRecv") + 1 /\ Available("mbSend")' <= Available("mbSend")
    BY <1>1, <2>1
  <2>3. /\ Available("mbRecv") \in Int /\ Available("mbRecv")' \in Int
        /\ Available("mbSend") \in Int /\ Available("mbSend")' \in Int
    BY <1>1
  <2>4. Awaited("mbRecv")'
    BY <1>1, <1>3, <2>1, <2>2, <2>3, WakesFirst
  <2>5. Awaited("mbSend")'
    BY <1>1, <1>3, <2>1, <2>2, <2>3, WakesFirst
  <2> QED
    BY <2>4, <2>5
<1>5. CASE MbRecv(c)
  <2>1. mbEntry' = mbEntry - 1 /\ ResumeFirst("mbSend")
    BY <1>5 DEF MbRecv
  <2>2. Available("mbRecv")' <= Available("mbRecv") /\ Available("mbSend")' <= Available("mbSend") + 1
    BY <1>1, <2>1
  <2>3. /\ Available("mbRecv") \in Int /\ Available("mbRecv")' \in Int
        /\ Available("mbSend") \in Int /\ Available("mbSend")' \in Int
    BY <1>1
  <2>4. Awaited("mbRecv")'
    BY <1>1, <1>3, <2>1, <2>2, <2>3, WakesFirst
  <2>5. Awaited("mbSend")'
    BY <1>1, <1>3, <2>1, <2>2, <2>3, WakesFirst
  <2> QED
    BY <2>4, <2>5
<1>6. CASE MbReset(c)
  BY <1>1, <1>6, AllWoken DEF MbReset
<1> QED
  BY <1>4, <1>5, <1>6

\* A call that has to wait, for the first time or again.
LEMMA MailboxWaitsAwaited ==
  ASSUME Waits, MbInv, MbInv', NEW t \in Thread,
         \/ \E lim \in Limits : \/ \E v \in Mail : MbSendWait(t, v, lim)
                               \/ MbRecvWait(t, lim)
         \/ MbSendAgain(t) \/ MbRecvAgain(t),
         Awaited("mbRecv"), Awaited("mbSend"),
         Available("mbRecv") = mbEntry, Available("mbSend") = MbSize - mbEntry,
         mbEntry \in 0 .. MbSize
  PROVE  Awaited("mbRecv")' /\ Awaited("mbSend")'
<1>1. /\ Available("mbRecv")' = mbEntry' /\ Available("mbSend")' = MbSize - mbEntry'
      /\ MbSize \in Nat /\ mbEntry \in Nat
      /\ "mbRecv" \in List /\ "mbSend" \in List
      /\ Alone' /\ t \in Context
  BY MailboxConstants DEF Available, List, MbInv, Context
<1>2. mbEntry' = mbEntry
  BY DEF MbSendWait, MbRecvWait, MbSendAgain, MbRecvAgain, mailboxVars
<1>3. /\ Available("mbRecv") \in Int /\ Available("mbRecv")' \in Int
      /\ Available("mbSend") \in Int /\ Available("mbSend")' \in Int
      /\ Available("mbRecv")' <= Available("mbRecv")
      /\ Available("mbSend")' <= Available("mbSend")
  BY <1>1, <1>2
<1>4. /\ at[t] \in {"mbSendAgain", "mbRecvAgain"} =>
           t \notin OnTheWay("mbRecv") /\ t \notin OnTheWay("mbSend")
      /\ Idle(t) => t \notin OnTheWay("mbRecv") /\ t \notin OnTheWay("mbSend")
  BY <1>1, OnTheWayIs DEF Waking, Woken, Idle
<1>5. ASSUME \/ \E lim \in Limits, v \in Mail : MbSendWait(t, v, lim)
             \/ MbSendAgain(t)
      PROVE  Awaited("mbRecv")' /\ Awaited("mbSend")'
  <2>1. mbEntry = MbSize
    BY <1>5 DEF MbSendWait, Full, MbSendAgain, MbInv, StageFits
  <2>2. t \notin OnTheWay("mbRecv")
    BY <1>4, <1>5 DEF MbSendWait, MbSendAgain
  <2>3. PICK lim : Wait(t, "mbSend", Place("mbSend", t), lim)
    BY <1>5 DEF MbSendWait, MbSendAgain
  <2>4. Available("mbSend")' <= 0
    BY <1>1, <1>2, <2>1
  <2> QED
    BY <1>1, <1>3, <2>2, <2>3, <2>4, GoesToWait
<1>6. ASSUME \/ \E lim \in Limits : MbRecvWait(t, lim)
             \/ MbRecvAgain(t)
      PROVE  Awaited("mbRecv")' /\ Awaited("mbSend")'
  <2>1. mbEntry = 0
    BY <1>6 DEF MbRecvWait, MbRecvAgain, MbInv, StageFits
  <2>2. t \notin OnTheWay("mbSend")
    BY <1>4, <1>6 DEF MbRecvWait, MbRecvAgain
  <2>3. PICK lim : Wait(t, "mbRecv", Place("mbRecv", t), lim)
    BY <1>6 DEF MbRecvWait, MbRecvAgain
  <2>4. Available("mbRecv")' <= 0
    BY <1>1, <1>2, <2>1
  <2> QED
    BY <1>1, <1>3, <2>2, <2>3, <2>4, GoesToWait
<1> QED
  BY <1>5, <1>6

\* A sender behind its wait: its slot is filled, then counted, then told of.
LEMMA MailboxSenderAwaited ==
  ASSUME Waits, Unanswered, MbInv, MbInv', NEW t \in Thread,
         MbSendRetest(t) \/ MbStore(t) \/ MbIn(t) \/ MbCountUp(t) \/ MbWakeRecv(t),
         Awaited("mbRecv"), Awaited("mbSend"),
         Available("mbRecv") = mbEntry, Available("mbSend") = MbSize - mbEntry,
         mbEntry \in 0 .. MbSize, mbEntry' \in 0 .. MbSize
  PROVE  Awaited("mbRecv")' /\ Awaited("mbSend")'
<1>1. /\ Available("mbRecv")' = mbEntry' /\ Available("mbSend")' = MbSize - mbEntry'
      /\ MbSize \in Nat /\ mbEntry \in Nat /\ mbEntry' \in Nat
      /\ "mbRecv" \in List /\ "mbSend" \in List
      /\ Alone' /\ t \in Context
      /\ at = [c \in Context |-> at[c]]
  BY MailboxConstants DEF Available, List, MbInv, Context, Waits
<1>2. /\ Available("mbRecv") \in Int /\ Available("mbRecv")' \in Int
      /\ Available("mbSend") \in Int /\ Available("mbSend")' \in Int
  BY <1>1
<1>3. /\ t \in OnTheWay("mbRecv")' <=>
           \/ at'[t] \in {"mbOut", "mbCountDown", "mbWakeRecv"}
           \/ at'[t] = "mbRecv" /\ stat'[t] = "READY" /\ error'[t] = "EOK"
      /\ t \in OnTheWay("mbSend")' <=>
           \/ at'[t] \in {"mbStore", "mbIn", "mbCountUp", "mbWakeSend"}
           \/ at'[t] = "mbSend" /\ stat'[t] = "READY" /\ error'[t] = "EOK"
  BY <1>1, OnTheWayThen DEF Waking
<1>4. t \in OnTheWay("mbRecv") <=> \/ at[t] \in {"mbOut", "mbCountDown", "mbWakeRecv"}
                                   \/ Woken(t, "mbRecv")
  BY <1>1, OnTheWayIs DEF Waking
<1>5. CASE MbSendRetest(t)
  <2>1. /\ mbEntry' = mbEntry /\ UNCHANGED threadVars
        /\ at[t] = "mbSend" /\ t \notin OnTheWay("mbRecv")
    BY <1>4, <1>5 DEF MbSendRetest, Woken
  <2>2. PICK to : /\ at' = [at EXCEPT ![t] = to]
                  /\ to = "mbStore" \/ mbEntry = MbSize
    BY <1>5 DEF MbSendRetest, Goto, Return, Full
  <2>3. Awaited("mbRecv")'
    <3>1. Available("mbRecv")' <= Available("mbRecv")
      BY <1>1, <2>1
    <3> QED
      BY <1>1, <1>2, <2>1, <2>2, <3>1, GoesOn
  <2>4. Awaited("mbSend")'
    <3>1. CASE mbEntry = MbSize
      <4>1. Available("mbSend")' <= 0
        BY <1>1, <2>1, <3>1
      <4> QED
        BY <1>1, <1>2, <4>1, NothingLeft
    <3>2. CASE to = "mbStore"
      <4>1. t \in OnTheWay("mbSend")'
        BY <1>1, <1>3, <2>2, <3>2
      <4>2. Available("mbSend")' <= Available("mbSend")
        BY <1>1, <2>1
      <4> QED
        BY <1>1, <1>2, <2>1, <2>2, <4>1, <4>2, GoesOn
    <3> QED
      BY <2>2, <3>1, <3>2
  <2> QED
    BY <2>3, <2>4
<1>6. CASE MbStore(t) \/ MbIn(t)
  <2>1. /\ mbEntry' = mbEntry /\ UNCHANGED threadVars
        /\ t \notin OnTheWay("mbRecv")
    BY <1>4, <1>6 DEF MbStore, MbIn, Woken
  <2>2. PICK to : at' = [at EXCEPT ![t] = to] /\ to \in {"mbIn", "mbCountUp"}
    BY <1>6 DEF MbStore, MbIn, Goto
  <2>3. t \in OnTheWay("mbSend")'
    BY <1>1, <1>3, <2>2
  <2>4. /\ Available("mbRecv")' <= Available("mbRecv")
        /\ Available("mbSend")' <= Available("mbSend")
    BY <1>1, <2>1
  <2>5. Awaited("mbRecv")'
    BY <1>1, <1>2, <2>1, <2>2, <2>4, GoesOn
  <2>6. Awaited("mbSend")'
    BY <1>1, <1>2, <2>1, <2>2, <2>3, <2>4, GoesOn
  <2> QED
    BY <2>5, <2>6
<1>7. CASE MbCountUp(t)
  <2>1. /\ mbEntry' = mbEntry + 1 /\ UNCHANGED threadVars
        /\ at' = [at EXCEPT ![t] = "mbWakeRecv"]
        /\ t \notin OnTheWay("mbRecv")
    BY <1>4, <1>7 DEF MbCountUp, Goto, Woken
  <2>2. t \in OnTheWay("mbRecv")'
    BY <1>1, <1>3, <2>1
  <2>3. /\ Available("mbRecv")' <= Available("mbRecv") + 1
        /\ Available("mbSend")' <= Available("mbSend") - 1
    BY <1>1, <2>1
  <2>4. Awaited("mbRecv")'
    BY <1>1, <1>2, <2>1, <2>2, <2>3, GoesOn
  <2>5. Awaited("mbSend")'
    BY <1>1, <1>2, <2>1, <2>3, GoesOn
  <2> QED
    BY <2>4, <2>5
<1>8. CASE MbWakeRecv(t)
  <2>1. /\ mbEntry' = mbEntry /\ ResumeFirst("mbRecv")
        /\ at' = [at EXCEPT ![t] = "idle"]
        /\ at[t] = "mbWakeRecv"
    BY <1>8 DEF MbWakeRecv, Return, mailboxVars
  <2>2. at[t] \notin List /\ t \notin OnTheWay("mbSend")
    BY <1>1, <2>1, OnTheWayIs DEF List, Waking, Woken
  <2>3. /\ Available("mbRecv")' <= Available("mbRecv")
        /\ Available("mbSend")' <= Available("mbSend")
    BY <1>1, <2>1
  <2>4. Awaited("mbRecv")'
    BY <1>1, <1>2, <2>1, <2>2, <2>3, WakesFirst
  <2>5. Awaited("mbSend")'
    BY <1>1, <1>2, <2>1, <2>2, <2>3, WakesFirst
  <2> QED
    BY <2>4, <2>5
<1> QED
  BY <1>5, <1>6, <1>7, <1>8

\* A receiver behind its wait: it has its mail, then counts, then tells.
LEMMA MailboxReceiverAwaited ==
  ASSUME Waits, Unanswered, MbInv, MbInv', NEW t \in Thread,
         MbRecvRetest(t) \/ MbOut(t) \/ MbCountDown(t) \/ MbWakeSend(t),
         Awaited("mbRecv"), Awaited("mbSend"),
         Available("mbRecv") = mbEntry, Available("mbSend") = MbSize - mbEntry,
         mbEntry \in 0 .. MbSize, mbEntry' \in 0 .. MbSize
  PROVE  Awaited("mbRecv")' /\ Awaited("mbSend")'
<1>1. /\ Available("mbRecv")' = mbEntry' /\ Available("mbSend")' = MbSize - mbEntry'
      /\ MbSize \in Nat /\ mbEntry \in Nat /\ mbEntry' \in Nat
      /\ "mbRecv" \in List /\ "mbSend" \in List
      /\ Alone' /\ t \in Context
      /\ at = [c \in Context |-> at[c]]
  BY MailboxConstants DEF Available, List, MbInv, Context, Waits
<1>2. /\ Available("mbRecv") \in Int /\ Available("mbRecv")' \in Int
      /\ Available("mbSend") \in Int /\ Available("mbSend")' \in Int
  BY <1>1
<1>3. /\ t \in OnTheWay("mbRecv")' <=>
           \/ at'[t] \in {"mbOut", "mbCountDown", "mbWakeRecv"}
           \/ at'[t] = "mbRecv" /\ stat'[t] = "READY" /\ error'[t] = "EOK"
      /\ t \in OnTheWay("mbSend")' <=>
           \/ at'[t] \in {"mbStore", "mbIn", "mbCountUp", "mbWakeSend"}
           \/ at'[t] = "mbSend" /\ stat'[t] = "READY" /\ error'[t] = "EOK"
  BY <1>1, OnTheWayThen DEF Waking
<1>4. t \in OnTheWay("mbSend") <=> \/ at[t] \in {"mbStore", "mbIn", "mbCountUp", "mbWakeSend"}
                                   \/ Woken(t, "mbSend")
  BY <1>1, OnTheWayIs DEF Waking
<1>5. CASE MbRecvRetest(t)
  <2>1. /\ mbEntry' = mbEntry /\ UNCHANGED threadVars
        /\ at[t] = "mbRecv" /\ t \notin OnTheWay("mbSend")
    BY <1>4, <1>5 DEF MbRecvRetest, Woken
  <2>2. PICK to : /\ at' = [at EXCEPT ![t] = to]
                  /\ to = "mbOut" \/ ~(mbEntry > 0)
    BY <1>5 DEF MbRecvRetest, Goto, Return
  <2>3. Awaited("mbSend")'
    <3>1. Available("mbSend")' <= Available("mbSend")
      BY <1>1, <2>1
    <3> QED
      BY <1>1, <1>2, <2>1, <2>2, <3>1, GoesOn
  <2>4. Awaited("mbRecv")'
    <3>1. CASE ~(mbEntry > 0)
      <4>1. Available("mbRecv")' <= 0
        BY <1>1, <2>1, <3>1
      <4> QED
        BY <1>1, <1>2, <4>1, NothingLeft
    <3>2. CASE to = "mbOut"
      <4>1. t \in OnTheWay("mbRecv")'
        BY <1>1, <1>3, <2>2, <3>2
      <4>2. Available("mbRecv")' <= Available("mbRecv")
        BY <1>1, <2>1
      <4> QED
        BY <1>1, <1>2, <2>1, <2>2, <4>1, <4>2, GoesOn
    <3> QED
      BY <2>2, <3>1, <3>2
  <2> QED
    BY <2>3, <2>4
<1>6. CASE MbOut(t)
  <2>1. /\ mbEntry' = mbEntry /\ UNCHANGED threadVars
        /\ t \notin OnTheWay("mbSend")
        /\ at' = [at EXCEPT ![t] = "mbCountDown"]
    BY <1>4, <1>6 DEF MbOut, Goto, Woken
  <2>2. t \in OnTheWay("mbRecv")'
    BY <1>1, <1>3, <2>1
  <2>3. /\ Available("mbRecv")' <= Available("mbRecv")
        /\ Available("mbSend")' <= Available("mbSend")
    BY <1>1, <2>1
  <2>4. Awaited("mbSend")'
    BY <1>1, <1>2, <2>1, <2>3, GoesOn
  <2>5. Awaited("mbRecv")'
    BY <1>1, <1>2, <2>1, <2>2, <2>3, GoesOn
  <2> QED
    BY <2>4, <2>5
<1>7. CASE MbCountDown(t)
  <2>1. /\ mbEntry' = IF mbEntry > 0 THEN mbEntry - 1 ELSE 0
        /\ UNCHANGED threadVars
        /\ at[t] = "mbCountDown"
        /\ at' = [at EXCEPT ![t] = "mbWakeSend"]
        /\ t \notin OnTheWay("mbSend")
    BY <1>4, <1>7 DEF MbCountDown, Goto, Woken
  <2>2. mbEntry > 0
    BY <2>1 DEF MbInv, StageFits
  <2>3. t \in OnTheWay("mbSend")'
    BY <1>1, <1>3, <2>1
  <2>4. /\ Available("mbSend")' <= Available("mbSend") + 1
        /\ Available("mbRecv")' <= Available("mbRecv") - 1
    BY <1>1, <2>1, <2>2
  <2>5. Awaited("mbSend")'
    BY <1>1, <1>2, <2>1, <2>3, <2>4, GoesOn
  <2>6. Awaited("mbRecv")'
    BY <1>1, <1>2, <2>1, <2>4, GoesOn
  <2> QED
    BY <2>5, <2>6
<1>8. CASE MbWakeSend(t)
  <2>1. /\ mbEntry' = mbEntry /\ ResumeFirst("mbSend")
        /\ at' = [at EXCEPT ![t] = "idle"]
        /\ at[t] = "mbWakeSend"
    BY <1>8 DEF MbWakeSend, Return, mailboxVars
  <2>2. at[t] \notin List /\ t \notin OnTheWay("mbRecv")
    BY <1>1, <2>1, OnTheWayIs DEF List, Waking, Woken
  <2>3. /\ Available("mbRecv")' <= Available("mbRecv")
        /\ Available("mbSend")' <= Available("mbSend")
    BY <1>1, <2>1
  <2>4. Awaited("mbSend")'
    BY <1>1, <1>2, <2>1, <2>2, <2>3, WakesFirst
  <2>5. Awaited("mbRecv")'
    BY <1>1, <1>2, <2>1, <2>2, <2>3, WakesFirst
  <2> QED
    BY <2>4, <2>5
<1> QED
  BY <1>5, <1>6, <1>7, <1>8

(* A pool: a woken thread takes the block, or finds that there is none.     *)
LEMMA PoolAwaited ==
  ASSUME Waits, Unanswered, Alone', MemPoolNext, Awaited("pool"),
         freeCount \in Nat, freeCount' \in Nat
  PROVE  Awaited("pool")'
<1>1. /\ Available("pool") = freeCount /\ Available("pool")' = freeCount'
      /\ Available("pool") \in Int /\ Available("pool")' \in Int
      /\ "pool" \in List /\ Thread \subseteq Context
  BY DEF Available, List, Context
<1>2. ASSUME NEW c \in Context, MpAlloc(c) PROVE Awaited("pool")'
  <2>1. /\ Available("pool")' <= Available("pool") - 1
        /\ UNCHANGED threadVars /\ at' = [at EXCEPT ![c] = "idle"]
    BY <1>1, <1>2 DEF MpAlloc, Return
  <2> QED
    BY <1>1, <2>1, GoesOn
<1>3. ASSUME NEW c \in Context, NEW b \in Block, MpFree(c, b) PROVE Awaited("pool")'
  <2>1. /\ Idle(c) /\ at' = at /\ ResumeFirst("pool")
        /\ Available("pool")' <= Available("pool") + 1
    BY <1>1, <1>3 DEF MpFree
  <2>2. c \notin OnTheWay("pool") /\ at[c] \notin List /\ at' = [at EXCEPT ![c] = "idle"]
    BY <1>1, <2>1, CallerOutside
  <2> QED
    BY <1>1, <2>1, <2>2, WakesFirst
<1>4. ASSUME NEW t \in Thread, NEW lim \in Limits, MpWait(t, lim) PROVE Awaited("pool")'
  <2>1. Available("pool")' <= 0 /\ Wait(t, "pool", 0, lim)
    BY <1>1, <1>4 DEF MpWait, memPoolVars
  <2> QED
    BY <1>1, <2>1, NothingLeft
<1>5. ASSUME NEW t \in Thread, MpTooLate(t) PROVE Awaited("pool")'
  <2>1. Available("pool")' <= 0
    BY <1>1, <1>5 DEF MpTooLate, memPoolVars
  <2> QED
    BY <1>1, <2>1, NothingLeft
<1> QED
  BY <1>2, <1>3, <1>4, <1>5 DEF MemPoolNext

(* A queue.  Room is a free cell: one that is neither in the queue nor with *)
(* a call that is between its two sections.                                 *)
Holders == {c \in Context : at[c] \in Inside}

RoomLeft ==
  /\ IsFiniteSet(Holders)
  /\ Available("mqSend") \in Nat
  /\ Available("mqSend") + mqEntry + Cardinality(Holders) = Cardinality(Cell)
  /\ free = None => Available("mqSend") = 0

(* Every cell is free, in the queue, or with a holder.                      *)
LEMMA RoomNow == QInv /\ CellsExact => RoomLeft
<1> SUFFICES ASSUME QInv, CellsExact PROVE RoomLeft
  OBVIOUS
<1> DEFINE F == Chain(link, free)
           Q == Chain(link, head)
           inHand == {c \in Context : cell[c] # None}
<1>1. Chains(F, Q) /\ CellTypes /\ Hands
  BY DEF QInv, Cells
<1>2. /\ Len(F \o Q) + Cardinality(inHand) = Cardinality(Cell)
      /\ Len(Q) = mqEntry
  BY DEF CellsExact
<1>3. IsFiniteSet(inHand) /\ Cardinality(inHand) \in Nat /\ inHand = Holders
  <2>1. IsFiniteSet(inHand)
    BY <1>1, HandsCardinality
  <2>2. inHand = Holders
    BY <1>1 DEF Hands, Holders
  <2> QED
    BY <2>1, <2>2, FS_CardinalityType
<1>4. Available("mqSend") = Len(F)
  BY DEF Available
<1> HIDE DEF F, Q, inHand
<1>5. /\ F \in Seq(Cell) /\ Q \in Seq(Cell)
      /\ free = IF F = <<>> THEN None ELSE F[1]
  BY <1>1 DEF Chains, Linked
<1>6. Len(F \o Q) = Len(F) + Len(Q) /\ Len(F) \in Nat /\ Len(Q) \in Nat
  BY <1>5
<1>7. free = None => Len(F) = 0
  <2>1. F # <<>> => F[1] \in Cell
    BY <1>5
  <2> QED
    BY <1>5, <2>1, MessageQueueConstants
<1> QED
  BY <1>2, <1>3, <1>4, <1>6, <1>7 DEF RoomLeft

\* The same behind the step.
LEMMA RoomThen == QInv' /\ CellsExact' => RoomLeft'
BY RoomNow, PTL

\* One caller takes a cell in hand, or lets it go, or neither.
LEMMA HoldersMove ==
  ASSUME Waits, IsFiniteSet(Holders), NEW c \in Context, NEW to, at' = [at EXCEPT ![c] = to]
  PROVE  /\ Cardinality(Holders) \in Nat /\ Cardinality(Holders') \in Nat
         /\ at[c] \notin Inside /\ to \notin Inside => Cardinality(Holders') = Cardinality(Holders)
         /\ at[c] \notin Inside /\ to \in Inside => Cardinality(Holders') = Cardinality(Holders) + 1
         /\ at[c] \in Inside /\ to \notin Inside => Cardinality(Holders') = Cardinality(Holders) - 1
<1>1. at'[c] = to /\ \A d \in Context \ {c} : at'[d] = at[d]
  BY DEF Waits
<1>2. CASE at[c] \notin Inside /\ to \notin Inside
  <2>1. Holders' = Holders
    BY <1>1, <1>2 DEF Holders
  <2> QED
    BY <1>2, <2>1, FS_CardinalityType
<1>3. CASE at[c] \notin Inside /\ to \in Inside
  <2>1. Holders' = Holders \union {c} /\ c \notin Holders
    BY <1>1, <1>3 DEF Holders
  <2> QED
    BY <1>3, <2>1, FS_AddElement, FS_CardinalityType
<1>4. CASE at[c] \in Inside /\ to \notin Inside
  <2>1. Holders' = Holders \ {c} /\ c \in Holders
    BY <1>1, <1>4 DEF Holders
  <2> QED
    BY <1>4, <2>1, FS_RemoveElement, FS_CardinalityType
<1>5. CASE at[c] \in Inside /\ to \in Inside
  <2>1. Holders' = Holders
    BY <1>1, <1>5 DEF Holders
  <2> QED
    BY <1>5, <2>1, FS_CardinalityType
<1> QED
  BY <1>2, <1>3, <1>4, <1>5

\* A call that gets on without waiting.
LEMMA QueueCallsAwaited ==
  ASSUME Waits, Unanswered, Alone', RoomLeft, RoomLeft', NEW c \in Context,
         \/ \E v \in Message, urgent \in BOOLEAN : MqTake(c, v, urgent)
         \/ MqLink(c) \/ MqLinkUrgent(c) \/ MqUnlink(c) \/ MqFree(c),
         Awaited("mqRecv"), Awaited("mqSend"), mqEntry \in Nat, mqEntry' \in Nat
  PROVE  Awaited("mqRecv")' /\ Awaited("mqSend")'
<1> DEFINE S == Available("mqSend")
           H == Cardinality(Holders)
           N == Cardinality(Cell)
<1>1. /\ Available("mqRecv") = mqEntry /\ Available("mqRecv")' = mqEntry'
      /\ S \in Nat /\ S' \in Nat
      /\ S + mqEntry + H = N /\ S' + mqEntry' + H' = N
      /\ IsFiniteSet(Holders)
      /\ "mqRecv" \in List /\ "mqSend" \in List
      /\ at = [d \in Context |-> at[d]]
  BY DEF Available, RoomLeft, List, Waits
<1>2. PICK to : at' = [at EXCEPT ![c] = to]
  BY DEF MqTake, MqLink, MqLinkUrgent, MqUnlink, MqFree, Goto, Return
<1>3. /\ H \in Nat /\ H' \in Nat
      /\ at[c] \notin Inside /\ at'[c] \in Inside => H' = H + 1
      /\ at[c] \in Inside /\ at'[c] \notin Inside => H' = H - 1
  BY <1>1, <1>2, HoldersMove
<1>4. N \in Int
  BY MessageQueueConstants, FS_CardinalityType
<1> HIDE DEF S, H, N
<1>5. \A l \in {"mqRecv", "mqSend"} : c \in OnTheWay(l) => c \in Thread /\ at[c] = l
  BY <1>1, OnTheWayIs DEF Waking, Woken
<1>6. /\ Available("mqRecv") \in Int /\ Available("mqRecv")' \in Int
      /\ Available("mqSend") \in Int /\ Available("mqSend")' \in Int
  BY <1>1 DEF S
<1>7. CASE \E v \in Message, urgent \in BOOLEAN : MqTake(c, v, urgent)
  <2>1. /\ mqEntry' = mqEntry /\ UNCHANGED threadVars
        /\ at[c] \in {"idle", "mqSend"} /\ at'[c] \in {"mqFill", "mqUrgent"}
    BY <1>1, <1>7 DEF MqTake, Sender, Idle, Woken, Goto
  <2>2. S' <= S - 1
    BY <1>1, <1>3, <1>4, <2>1 DEF Inside
  <2>3. c \notin OnTheWay("mqRecv")
    BY <1>5, <2>1
  <2>4. Available("mqRecv")' <= Available("mqRecv")
    BY <1>1, <2>1
  <2>5. Awaited("mqRecv")'
    BY <1>1, <1>2, <1>6, <2>1, <2>3, <2>4, GoesOn
  <2>6. Awaited("mqSend")'
    <3>1. Available("mqSend")' <= Available("mqSend") - 1
      BY <2>2 DEF S
    <3> QED
      BY <1>1, <1>2, <1>6, <2>1, <3>1, GoesOn
  <2> QED
    BY <2>5, <2>6
<1>8. CASE MqLink(c) \/ MqLinkUrgent(c)
  <2>1. /\ mqEntry' = mqEntry + 1 /\ ResumeFirst("mqRecv")
        /\ at[c] \in {"mqFill", "mqUrgent"} /\ at'[c] = "idle"
    BY <1>1, <1>8 DEF MqLink, MqLinkUrgent, Return
  <2>2. S' <= S
    BY <1>1, <1>3, <1>4, <2>1 DEF Inside
  <2>3. /\ c \notin OnTheWay("mqRecv") /\ c \notin OnTheWay("mqSend")
        /\ at[c] \notin List
    BY <1>5, <2>1 DEF List
  <2>4. /\ Available("mqRecv")' <= Available("mqRecv") + 1
        /\ Available("mqSend")' <= Available("mqSend")
    BY <1>1, <2>1, <2>2 DEF S
  <2>5. Awaited("mqRecv")'
    BY <1>1, <1>2, <1>6, <2>1, <2>3, <2>4, WakesFirst
  <2>6. Awaited("mqSend")'
    BY <1>1, <1>2, <1>6, <2>1, <2>3, <2>4, WakesFirst
  <2> QED
    BY <2>5, <2>6
<1>9. CASE MqUnlink(c)
  <2>1. /\ mqEntry' = mqEntry - 1 /\ UNCHANGED threadVars
        /\ at[c] \in {"idle", "mqRecv"} /\ at'[c] = "mqCopy"
    BY <1>1, <1>9 DEF MqUnlink, Idle, Woken, Goto
  <2>2. S' <= S
    BY <1>1, <1>3, <1>4, <2>1 DEF Inside
  <2>3. c \notin OnTheWay("mqSend")
    BY <1>5, <2>1
  <2>4. /\ Available("mqRecv")' <= Available("mqRecv") - 1
        /\ Available("mqSend")' <= Available("mqSend")
    BY <1>1, <2>1, <2>2 DEF S
  <2>5. Awaited("mqRecv")'
    BY <1>1, <1>2, <1>6, <2>1, <2>4, GoesOn
  <2>6. Awaited("mqSend")'
    BY <1>1, <1>2, <1>6, <2>1, <2>3, <2>4, GoesOn
  <2> QED
    BY <2>5, <2>6
<1>10. CASE MqFree(c)
  <2>1. /\ mqEntry' = mqEntry /\ ResumeFirst("mqSend")
        /\ at[c] = "mqCopy" /\ at'[c] = "idle"
    BY <1>1, <1>10 DEF MqFree, Return
  <2>2. S' <= S + 1
    BY <1>1, <1>3, <1>4, <2>1 DEF Inside
  <2>3. /\ c \notin OnTheWay("mqRecv") /\ c \notin OnTheWay("mqSend")
        /\ at[c] \notin List
    BY <1>5, <2>1 DEF List
  <2>4. /\ Available("mqRecv")' <= Available("mqRecv")
        /\ Available("mqSend")' <= Available("mqSend") + 1
    BY <1>1, <2>1, <2>2 DEF S
  <2>5. Awaited("mqRecv")'
    BY <1>1, <1>2, <1>6, <2>1, <2>3, <2>4, WakesFirst
  <2>6. Awaited("mqSend")'
    BY <1>1, <1>2, <1>6, <2>1, <2>3, <2>4, WakesFirst
  <2> QED
    BY <2>5, <2>6
<1> QED
  BY <1>7, <1>8, <1>9, <1>10

\* A call that waits, gives up waiting, or resets the queue.
LEMMA QueueWaitsAwaited ==
  ASSUME Waits, Alone', RoomLeft, RoomLeft', NEW t \in Thread,
         \/ \E lim \in Limits : \/ \E v \in Message : MqSendWait(t, v, lim)
                               \/ MqRecvWait(t, lim)
         \/ MqTooLate(t),
         Awaited("mqRecv"), Awaited("mqSend"), mqEntry \in Nat, mqEntry' \in Nat
  PROVE  Awaited("mqRecv")' /\ Awaited("mqSend")'
<1>1. /\ Available("mqRecv") = mqEntry /\ Available("mqRecv")' = mqEntry'
      /\ Available("mqSend") \in Nat /\ Available("mqSend")' \in Nat
      /\ free = None => Available("mqSend") = 0
      /\ "mqRecv" \in List /\ "mqSend" \in List /\ t \in Context
  BY DEF Available, RoomLeft, List, Context
<1>2. UNCHANGED <<link, free, mqEntry>>
  BY DEF MqSendWait, MqRecvWait, MqTooLate, messageQueueVars
<1>3. /\ Available("mqRecv") \in Int /\ Available("mqRecv")' \in Int
      /\ Available("mqSend") \in Int /\ Available("mqSend")' \in Int
      /\ Available("mqRecv")' <= Available("mqRecv")
      /\ Available("mqSend")' <= Available("mqSend")
  <2>1. Chain(link, free)' = Chain(link, free)
    BY <1>2 DEF Chain
  <2>2. Available("mqSend")' = Available("mqSend")
    BY <2>1 DEF Available
  <2> QED
    BY <1>1, <1>2, <2>2
<1>4. \A l \in {"mqRecv", "mqSend"} : t \in OnTheWay(l) => at[t] = l
  BY <1>1, OnTheWayIs DEF Waking, Woken
<1>5. CASE \E lim \in Limits, v \in Message : MqSendWait(t, v, lim)
  <2>1. free = None /\ at[t] \in {"idle", "mqSend"}
    BY <1>5 DEF MqSendWait, Sender, Idle, Woken
  <2>2. PICK lim : Wait(t, "mqSend", Place("mqSend", t), lim)
    BY <1>5 DEF MqSendWait
  <2>3. t \notin OnTheWay("mqRecv")
    BY <1>4, <2>1
  <2>4. Available("mqSend")' <= 0
    BY <1>1, <1>3, <2>1
  <2> QED
    BY <1>1, <1>3, <2>2, <2>3, <2>4, GoesToWait
<1>6. CASE \E lim \in Limits : MqRecvWait(t, lim)
  <2>1. mqEntry = 0 /\ at[t] \in {"idle", "mqRecv"}
    BY <1>6 DEF MqRecvWait, Idle, Woken
  <2>2. PICK lim : Wait(t, "mqRecv", Place("mqRecv", t), lim)
    BY <1>6 DEF MqRecvWait
  <2>3. t \notin OnTheWay("mqSend")
    BY <1>4, <2>1
  <2>4. Available("mqRecv")' <= 0
    BY <1>1, <1>3, <2>1
  <2> QED
    BY <1>1, <1>3, <2>2, <2>3, <2>4, GoesToWait
<1>7. CASE MqTooLate(t)
  <2>1. UNCHANGED threadVars /\ at' = [at EXCEPT ![t] = "idle"]
    BY <1>7 DEF MqTooLate, Return
  <2>2. CASE at[t] = "mqSend" /\ free = None
    <3>1. t \notin OnTheWay("mqRecv") /\ Available("mqSend")' <= 0
      BY <1>1, <1>3, <1>4, <2>2
    <3>2. Awaited("mqRecv")'
      BY <1>1, <1>3, <2>1, <3>1, GoesOn
    <3> QED
      BY <1>1, <1>3, <3>1, <3>2, NothingLeft
  <2>3. CASE at[t] = "mqRecv" /\ mqEntry = 0
    <3>1. t \notin OnTheWay("mqSend") /\ Available("mqRecv")' <= 0
      BY <1>1, <1>3, <1>4, <2>3
    <3>2. Awaited("mqSend")'
      BY <1>1, <1>3, <2>1, <3>1, GoesOn
    <3> QED
      BY <1>1, <1>3, <3>1, <3>2, NothingLeft
  <2> QED
    BY <1>7, <2>2, <2>3 DEF MqTooLate, Woken
<1> QED
  BY <1>5, <1>6, <1>7

-----------------------------------------------------------------------------
(* The steps that touch no object *)

(* rt_thread_timeout takes a waiter from its list, and a call that ends with *)
(* an error was not on its way.                                             *)
LEMMA AgesAwaited ==
  ASSUME Waits, Alone', NEW t \in Thread, Timeout(t) \/ GiveUp(t),
         NEW l \in List, Awaited(l), Available(l) \in Int, Available(l)' = Available(l)
  PROVE  Awaited(l)'
<1>1. t \notin OnTheWay(l)
  <2>1. CASE Timeout(t)
    <3>1. stat[t] = "SUSPEND" /\ at[t] \in List
      BY <2>1 DEF Timeout, Waits
    <3>2. List \intersect Waking(l) = {}
      BY DEF List, Waking
    <3> QED
      BY <3>1, <3>2, OnTheWayIs DEF Woken
  <2>2. CASE GiveUp(t)
    <3>1. error[t] # "EOK" /\ at[t] \in List
      BY <2>2 DEF GiveUp, Failed
    <3>2. List \intersect Waking(l) = {}
      BY DEF List, Waking
    <3> QED
      BY <3>1, <3>2, OnTheWayIs DEF Woken
  <2> QED
    BY <2>1, <2>2
<1>2. \A d \in Context \ {t} : at'[d] = at[d]
  BY DEF Timeout, GiveUp, Return, Waits
<1>3. \A d \in Thread \ {t} : Woken(d, l) => stat'[d] = "READY" /\ error'[d] = "EOK"
  <2> TAKE d \in Thread \ {t}
  <2>1. CASE Timeout(t)
    <3>1. /\ stat' = [stat EXCEPT ![t] = "READY"]
          /\ error' = [error EXCEPT ![t] = "ETIMEOUT"]
      BY <2>1 DEF Timeout
    <3> QED
      BY <3>1 DEF Woken
  <2>2. CASE GiveUp(t)
    <3>1. stat' = stat /\ error' = [error EXCEPT ![t] = "EOK"]
      BY <2>2 DEF GiveUp
    <3> QED
      BY <3>1 DEF Woken
  <2> QED
    BY <2>1, <2>2
<1>4. waiters'[l] # <<>> => waiters[l] # <<>>
  <2>1. CASE Timeout(t)
    BY <2>1 DEF Timeout, Unlink
  <2>2. CASE GiveUp(t)
    BY <2>2 DEF GiveUp
  <2> QED
    BY <2>1, <2>2
<1>5. OnTheWay(l) \ {t} \subseteq OnTheWay(l)'
  BY <1>2, <1>3, OthersGoOn
<1> QED
  BY <1>1, <1>4, <1>5, StepOfOne

-----------------------------------------------------------------------------
(* Nobody sleeps with an error *)

\* All that a step can do to threads.
Handled ==
  \/ UNCHANGED threadVars
  \/ \E t \in Thread, l \in List : \E n, lim : Wait(t, l, n, lim)
  \/ \E l \in List : ResumeFirst(l)
  \/ \E l, ts, e : Resume(l, ts, e)
  \/ \E ls \in SUBSET List : ResumeAll(ls)
  \/ \E t \in Thread : Timeout(t) \/ GiveUp(t)

(* The calls of each object go through the helpers of ipc.c.                *)
LEMMA MutexHandled == ASSUME MutexNext PROVE Handled
<1> "mutex" \in List
  BY DEF List
<1> QED
  BY DEF MutexNext, MutexTake, MutexTakeAgain, MutexBlock, MutexTaken, MutexReleaseOne,
         MutexHandOver, MutexFree, Handled

\* The same of rt_event_send and rt_event_recv,
LEMMA EventHandled == ASSUME EventNext PROVE Handled
<1> "event" \in List /\ {"event"} \in SUBSET List
  BY DEF List
<1>1. ASSUME NEW c \in Context, NEW sent, EventSend(c, sent) PROVE Handled
  <2>1. \E l, ts, e : Resume(l, ts, e)
    BY <1>1 DEF EventSend
  <2> QED
    BY <2>1 DEF Handled
<1>2. ASSUME NEW c \in Context, EventReset(c) PROVE Handled
  BY <1>2 DEF EventReset, Handled
<1>3. ASSUME NEW t \in Thread, NEW want, NEW how,
             EventRecv(t, want, how) \/ EventReturn(t) \/ \E lim : EventWait(t, want, how, lim)
      PROVE  Handled
  BY <1>3 DEF EventRecv, EventReturn, EventWait, Handled
<1>4. ASSUME NEW t \in Thread, EventReturn(t) PROVE Handled
  BY <1>4 DEF EventReturn, Handled
<1> QED
  BY <1>1, <1>2, <1>3, <1>4 DEF EventNext

\* of a mailbox, behind a wait too,
LEMMA MailboxHandled == ASSUME MailboxNext PROVE Handled
<1> "mbRecv" \in List /\ "mbSend" \in List /\ {"mbRecv", "mbSend"} \in SUBSET List
  BY DEF List
<1>1. ASSUME NEW c \in Context,
             (\E v \in Mail : MbSend(c, v) \/ MbUrgent(c, v)) \/ MbRecv(c) \/ MbReset(c)
      PROVE  Handled
  BY <1>1 DEF MbSend, MbUrgent, MbRecv, MbReset, Handled
<1>2. ASSUME NEW t \in Thread,
             \/ \E lim \in Limits : \/ \E v \in Mail : MbSendWait(t, v, lim)
                                   \/ MbRecvWait(t, lim)
             \/ MbSendAgain(t) \/ MbRecvAgain(t)
      PROVE  Handled
  BY <1>2 DEF MbSendWait, MbRecvWait, MbSendAgain, MbRecvAgain, Handled
<1>3. ASSUME NEW t \in Thread,
             \/ MbSendRetest(t) \/ MbStore(t) \/ MbIn(t) \/ MbCountUp(t) \/ MbWakeRecv(t)
             \/ MbRecvRetest(t) \/ MbOut(t) \/ MbCountDown(t) \/ MbWakeSend(t)
      PROVE  Handled
  BY <1>3 DEF MbSendRetest, MbStore, MbIn, MbCountUp, MbWakeRecv, MbRecvRetest, MbOut,
              MbCountDown, MbWakeSend, Handled
<1> QED
  BY <1>1, <1>2, <1>3 DEF MailboxNext

\* of a message queue,
LEMMA QueueHandled == ASSUME MessageQueueNext PROVE Handled
<1> "mqRecv" \in List /\ "mqSend" \in List /\ {"mqRecv", "mqSend"} \in SUBSET List
  BY DEF List
<1>1. ASSUME NEW c \in Context,
             \/ \E v \in Message, urgent \in BOOLEAN : MqTake(c, v, urgent)
             \/ MqUnlink(c)
      PROVE  Handled
  BY <1>1 DEF MqTake, MqUnlink, Handled
<1>2. ASSUME NEW c \in Context, MqLink(c) \/ MqLinkUrgent(c) \/ MqFree(c) PROVE Handled
  BY <1>2 DEF MqLink, MqLinkUrgent, MqFree, Handled
<1>3. ASSUME NEW c \in Context, MqReset(c) PROVE Handled
  BY <1>3 DEF MqReset, Handled
<1>4. ASSUME NEW t \in Thread,
             \/ \E lim \in Limits : \/ \E v \in Message : MqSendWait(t, v, lim)
                                   \/ MqRecvWait(t, lim)
             \/ MqTooLate(t)
      PROVE  Handled
  BY <1>4 DEF MqSendWait, MqRecvWait, MqTooLate, Handled
<1> QED
  BY <1>1, <1>2, <1>3, <1>4 DEF MessageQueueNext

\* and of a pool.
LEMMA PoolHandled == ASSUME MemPoolNext PROVE Handled
<1> "pool" \in List
  BY DEF List
<1> QED
  BY DEF MemPoolNext, MpAlloc, MpFree, MpWait, MpTooLate, Handled

(* So does every step.                                                      *)
LEMMA NextHandled == ASSUME IInv, Next PROVE Handled
<1>1. CASE UseMutex \/ UseEvent \/ UseMailbox \/ UseQueue \/ UsePool
  BY <1>1, MutexHandled, EventHandled, MailboxHandled, QueueHandled, PoolHandled
     DEF UseMutex, UseEvent, UseMailbox, MailboxStep, UseQueue, UsePool
<1>2. ASSUME NEW t \in Thread, Expire(t) \/ ReturnError(t) PROVE Handled
  BY <1>2 DEF Expire, ReturnError, Handled
<1>3. ASSUME NEW t \in Thread, EndStep(t) PROVE Handled
  <2>1. UNCHANGED threadVars \/ \E l, ts, e : Resume(l, ts, e)
    BY <1>3 DEF EndStep, Detach, EndTest, EndWake, EndFail, EndOver
  <2> QED
    BY <2>1 DEF Handled
<1>4. CASE Create
  BY <1>4 DEF Create, Handled
<1>5. CASE UNCHANGED vars
  BY <1>5 DEF vars, Handled
<1> QED
  BY <1>1, <1>2, <1>3, <1>4, <1>5 DEF Next, EndStep

(* Whoever goes to wait has no error; whoever gets one goes on.             *)
LEMMA HandledUnanswered ==
  ASSUME Waits, Typed, Unanswered, Handled PROVE Unanswered'
<1> USE DEF Unanswered
<1>1. CASE UNCHANGED threadVars
  BY <1>1 DEF threadVars
<1>2. ASSUME NEW t \in Thread, NEW l \in List, NEW n, NEW lim, Wait(t, l, n, lim)
      PROVE  Unanswered'
  <2>1. stat' = [stat EXCEPT ![t] = "SUSPEND"] /\ error' = [error EXCEPT ![t] = "EOK"]
    BY <1>2 DEF Wait
  <2>2. \A u \in Thread : stat'[u] = "SUSPEND" =>
          error'[u] = "EOK" \/ (stat[u] = "SUSPEND" /\ error'[u] = error[u])
    BY <2>1 DEF Waits, Typed
  <2> QED
    BY <2>2
<1>3. ASSUME NEW l \in List, ResumeFirst(l) PROVE Unanswered'
  <2>1. /\ \A d \in Thread : stat[d] = "READY" => stat'[d] = "READY"
        /\ \A d \in Thread : error'[d] = error[d]
    BY <1>3, FirstLeaves DEF Waits
  <2> QED
    BY <2>1 DEF Waits
<1>4. ASSUME NEW l, NEW ts, NEW e, Resume(l, ts, e) PROVE Unanswered'
  BY <1>4 DEF Resume
<1>5. ASSUME NEW ls \in SUBSET List, ResumeAll(ls) PROVE Unanswered'
  BY <1>5 DEF ResumeAll
<1>6. ASSUME NEW t \in Thread, Timeout(t) PROVE Unanswered'
  <2>1. /\ stat' = [stat EXCEPT ![t] = "READY"] /\ error' = [error EXCEPT ![t] = "ETIMEOUT"]
    BY <1>6 DEF Timeout
  <2>2. \A u \in Thread : stat'[u] = "SUSPEND" => stat[u] = "SUSPEND" /\ error'[u] = error[u]
    BY <2>1 DEF Waits
  <2> QED
    BY <2>2
<1>7. ASSUME NEW t \in Thread, GiveUp(t) PROVE Unanswered'
  BY <1>7 DEF GiveUp
<1> QED
  BY <1>1, <1>2, <1>3, <1>4, <1>5, <1>6, <1>7 DEF Handled

\* No suspended thread has an error, in any behaviour.
LEMMA UnansweredHolds == Spec => []Unanswered
<1>1. Init => Unanswered
  BY DEF Init, WaitingInit, Unanswered
<1>2. IInv /\ Unanswered /\ [Next]_vars => Unanswered'
  <2>1. ASSUME IInv, Next PROVE Handled
    BY <2>1, NextHandled
  <2>2. UNCHANGED vars => Handled
    BY DEF vars, Handled
  <2> QED
    BY <2>1, <2>2, HandledUnanswered DEF IInv
<1> QED
  BY <1>1, <1>2, InvariantHolds, PTL DEF Spec

-----------------------------------------------------------------------------
(* Every step *)

\* What all invariants say of a state.
Sound == /\ IInv /\ QInv /\ MbInv /\ Blocks
         /\ RoomLeft /\ Unanswered

(* What the calls of an object do to its own lists.                         *)
LEMMA MailboxAwaited ==
  ASSUME Sound, Sound', MailboxNext, Awaited("mbRecv"), Awaited("mbSend")
  PROVE  Awaited("mbRecv")' /\ Awaited("mbSend")'
<1>1. /\ Waits /\ Unanswered /\ MbInv /\ MbInv'
      /\ Available("mbRecv") = mbEntry /\ Available("mbSend") = MbSize - mbEntry
      /\ mbEntry \in 0 .. MbSize
  BY Counted DEF Sound, IInv
<1>2. mbEntry' \in 0 .. MbSize
  BY MailboxConstants DEF Sound, MbInv, MailboxTypes, MailboxTypeOK
<1>3. ASSUME NEW c \in Context,
             (\E v \in Mail : MbSend(c, v) \/ MbUrgent(c, v)) \/ MbRecv(c) \/ MbReset(c)
      PROVE  Awaited("mbRecv")' /\ Awaited("mbSend")'
  BY <1>1, <1>2, <1>3, MailboxCallsAwaited
<1>4. ASSUME NEW t \in Thread,
             \/ \E lim \in Limits : \/ \E v \in Mail : MbSendWait(t, v, lim)
                                   \/ MbRecvWait(t, lim)
             \/ MbSendAgain(t) \/ MbRecvAgain(t)
      PROVE  Awaited("mbRecv")' /\ Awaited("mbSend")'
  BY <1>1, <1>4, MailboxWaitsAwaited
<1>5. ASSUME NEW t \in Thread,
             MbSendRetest(t) \/ MbStore(t) \/ MbIn(t) \/ MbCountUp(t) \/ MbWakeRecv(t)
      PROVE  Awaited("mbRecv")' /\ Awaited("mbSend")'
  BY <1>1, <1>2, <1>5, MailboxSenderAwaited
<1>6. ASSUME NEW t \in Thread,
             MbRecvRetest(t) \/ MbOut(t) \/ MbCountDown(t) \/ MbWakeSend(t)
      PROVE  Awaited("mbRecv")' /\ Awaited("mbSend")'
  BY <1>1, <1>2, <1>6, MailboxReceiverAwaited
<1> QED
  BY <1>3, <1>4, <1>5, <1>6 DEF MailboxNext

\* The same of a message queue.
LEMMA QueueAwaited ==
  ASSUME Sound, Sound', MessageQueueNext, Awaited("mqRecv"), Awaited("mqSend")
  PROVE  Awaited("mqRecv")' /\ Awaited("mqSend")'
<1>1. /\ Waits /\ Unanswered /\ Alone' /\ RoomLeft /\ RoomLeft'
      /\ mqEntry \in Nat
  BY Counted DEF Sound, IInv, MbInv
<1>2. mqEntry' \in Nat
  BY DEF Sound, QInv, Cells, Chains, Linked
<1>3. ASSUME NEW c \in Context,
             \/ \E v \in Message, urgent \in BOOLEAN : MqTake(c, v, urgent)
             \/ MqLink(c) \/ MqLinkUrgent(c) \/ MqUnlink(c) \/ MqFree(c)
      PROVE  Awaited("mqRecv")' /\ Awaited("mqSend")'
  BY <1>1, <1>2, <1>3, QueueCallsAwaited
<1>4. ASSUME NEW c \in Context, MqReset(c)
      PROVE  Awaited("mqRecv")' /\ Awaited("mqSend")'
  <2>1. {"mqRecv", "mqSend"} \in SUBSET List /\ ResumeAll({"mqRecv", "mqSend"})
    BY <1>4 DEF MqReset, List
  <2> QED
    BY <2>1, AllWoken
<1>5. ASSUME NEW t \in Thread,
             \/ \E lim \in Limits : \/ \E v \in Message : MqSendWait(t, v, lim)
                                   \/ MqRecvWait(t, lim)
             \/ MqTooLate(t)
      PROVE  Awaited("mqRecv")' /\ Awaited("mqSend")'
  BY <1>1, <1>2, <1>5, QueueWaitsAwaited
<1> QED
  BY <1>3, <1>4, <1>5 DEF MessageQueueNext

(* Lists an object does not have are empty, before the step and after it.   *)
LEMMA OthersAwaited ==
  ASSUME IInv', NEW l \in List, object' \in DOMAIN ListsOf => l \notin ListsOf[object']
  PROVE  Awaited(l)'
<1>1. waiters'[l] = <<>>
  BY DEF IInv, Using
<1> QED
  BY <1>1 DEF Awaited

(* While a thread ends the object nobody is on the way to anything in it.    *)
LEMMA NoneOnTheWay ==
  ASSUME Waits, Errors, NEW t \in Thread, at[t] \in {"idle"} \union Ending,
         \A d \in Context \ {t} : Harmless(d), NEW l \in List
  PROVE  OnTheWay(l) = {}
<1>1. Waking(l) \intersect ({"idle"} \union Ending \union List) = {} /\ l \in List
  BY DEF Waking, Ending, List
<1>2. ASSUME NEW c \in Context, c \in OnTheWay(l) PROVE FALSE
  <2>1. at[c] \in Waking(l) \/ (c \in Thread /\ Woken(c, l))
    BY <1>2, OnTheWayIs
  <2>2. CASE c = t
    <3>1. l # "idle" /\ l \notin Ending
      BY DEF List, Ending
    <3> QED
      BY <1>1, <2>1, <2>2, <3>1 DEF Woken
  <2>3. CASE c # t
    <3>1. Harmless(c)
      BY <2>3
    <3>2. at[c] = "idle" \/ (c \in Thread /\ at[c] \in List)
      BY <3>1, HarmlessPlaces
    <3>3. c \in Thread /\ Woken(c, l)
      BY <1>1, <2>1, <3>2
    <3>4. at[c] = l /\ stat[c] = "READY" /\ error[c] = "EOK" /\ l # "idle"
      BY <3>3 DEF Woken, List
    <3> QED
      BY <3>1, <3>3, <3>4, WaitingConstants DEF Harmless
  <2> QED
    BY <2>2, <2>3
<1> QED
  BY <1>2, OnTheWayIs

\* The same behind the step.
LEMMA NoneOnTheWayThen ==
  ASSUME (Waits /\ Errors)', NEW t \in Thread, at'[t] \in {"idle"} \union Ending,
         \A d \in Context \ {t} : Harmless(d)', NEW l \in List
  PROVE  OnTheWay(l)' = {}
<1>1. Waking(l) \intersect ({"idle"} \union Ending \union List) = {} /\ l \in List
  BY DEF Waking, Ending, List
<1>2. ASSUME NEW c \in Context, c \in OnTheWay(l)' PROVE FALSE
  <2>1. at'[c] \in Waking(l) \/ (c \in Thread /\ Woken(c, l)')
    BY <1>2, OnTheWayThen DEF Woken
  <2>2. CASE c = t
    <3>1. l # "idle" /\ l \notin Ending
      BY DEF List, Ending
    <3> QED
      BY <1>1, <2>1, <2>2, <3>1 DEF Woken
  <2>3. CASE c # t
    <3>1. Harmless(c)'
      BY <2>3
    <3>2. at'[c] = "idle" \/ (c \in Thread /\ at'[c] \in List)
      BY <3>1 DEF Harmless, Waits, Errors, Context
    <3>3. c \in Thread /\ Woken(c, l)'
      BY <1>1, <2>1, <3>2
    <3>4. at'[c] = l /\ stat'[c] = "READY" /\ error'[c] = "EOK" /\ l # "idle"
      BY <3>3 DEF Woken, List
    <3> QED
      BY <3>1, <3>3, <3>4, WaitingConstants DEF Harmless
  <2> QED
    BY <2>2, <2>3
<1> QED
  BY <1>2, OnTheWayThen

(* Nothing happens.                                                         *)
LEMMA StayAwaited ==
  ASSUME UNCHANGED vars, NoneForgotten PROVE NoneForgotten'
<1>1. /\ UNCHANGED <<waiters, stat, error, at>>
      /\ UNCHANGED <<link, free, mqEntry, mbEntry, freeCount>>
  BY DEF vars, threadVars, objectVars, mailboxVars, messageQueueVars, memPoolVars
<1>2. Chain(link, free)' = Chain(link, free)
  BY <1>1 DEF Chain
<1>3. \A l \in List : Available(l)' = Available(l)
  BY <1>1, <1>2 DEF Available
<1>4. \A l \in List : OnTheWay(l)' = OnTheWay(l)
  BY <1>1 DEF OnTheWay, Woken
<1> QED
  BY <1>1, <1>3, <1>4 DEF NoneForgotten

(* So no step forgets a waiter of any object.                               *)
LEMMA NextAwaited ==
  ASSUME Sound, Sound', Next, NoneForgotten PROVE NoneForgotten'
<1> DEFINE Lists == {"mbRecv", "mbSend", "mqRecv", "mqSend", "pool"}
<1>1. /\ NoneForgotten <=> \A l \in Lists : Awaited(l)
      /\ NoneForgotten' <=> \A l \in Lists : Awaited(l)'
      /\ Lists \subseteq List
  BY DEF NoneForgotten, Awaited, List
<1>2. IInv' /\ Waits /\ Alone' /\ Unanswered
  BY DEF Sound, IInv, MbInv
<1>3. \A l \in Lists : Awaited(l)
  BY <1>1
<1>4. CASE (UseMutex \/ UseEvent) /\ UNCHANGED <<object, flag>>
  <2>1. object' \in {"mutex", "event"}
    BY <1>4 DEF UseMutex, UseEvent
  <2>2. \A l \in Lists : object' \in DOMAIN ListsOf => l \notin ListsOf[object']
    BY <2>1 DEF ListsOf
  <2> HIDE DEF Lists
  <2> QED
    BY <1>1, <1>2, <2>2, OthersAwaited
<1>5. CASE UseMailbox /\ UNCHANGED <<object, flag>>
  <2>1. object' = "mailbox" /\ MailboxNext
    BY <1>5 DEF UseMailbox, MailboxStep
  <2>2. Awaited("mbRecv")' /\ Awaited("mbSend")'
    BY <1>3, <2>1, MailboxAwaited
  <2>3. \A l \in {"mqRecv", "mqSend", "pool"} : Awaited(l)'
    <3>1. \A l \in {"mqRecv", "mqSend", "pool"} : l \in List /\ l \notin ListsOf[object']
      BY <2>1 DEF ListsOf, List
    <3> QED
      BY <1>2, <3>1, OthersAwaited
  <2> QED
    BY <1>1, <2>2, <2>3
<1>6. CASE UseQueue /\ UNCHANGED <<object, flag>>
  <2>1. object' = "queue" /\ MessageQueueNext
    BY <1>6 DEF UseQueue
  <2>2. Awaited("mqRecv")' /\ Awaited("mqSend")'
    BY <1>3, <2>1, QueueAwaited
  <2>3. \A l \in {"mbRecv", "mbSend", "pool"} : Awaited(l)'
    <3>1. \A l \in {"mbRecv", "mbSend", "pool"} : l \in List /\ l \notin ListsOf[object']
      BY <2>1 DEF ListsOf, List
    <3> QED
      BY <1>2, <3>1, OthersAwaited
  <2> QED
    BY <1>1, <2>2, <2>3
<1>7. CASE UsePool /\ UNCHANGED <<object, flag>>
  <2>1. object' = "pool" /\ MemPoolNext
    BY <1>7 DEF UsePool
  <2>2. Awaited("pool")'
    <3>1. freeCount \in Nat /\ freeCount' \in Nat
      BY DEF Sound, Blocks
    <3> QED
      BY <1>2, <1>3, <2>1, <3>1, PoolAwaited
  <2>3. \A l \in Lists \ {"pool"} : Awaited(l)'
    <3>1. \A l \in Lists \ {"pool"} : l \in List /\ l \notin ListsOf[object']
      BY <2>1 DEF ListsOf, List
    <3> HIDE DEF Lists
    <3> QED
      BY <1>2, <3>1, OthersAwaited
  <2> QED
    BY <1>1, <2>2, <2>3
<1>8. ASSUME NEW t \in Thread, Expire(t) \/ ReturnError(t) PROVE NoneForgotten'
  <2>1. Timeout(t) \/ GiveUp(t)
    BY <1>8 DEF Expire, ReturnError
  <2>2. UNCHANGED <<link, free, mqEntry, mbEntry, freeCount>>
    BY <1>8 DEF Expire, ReturnError, objectVars, mailboxVars, messageQueueVars, memPoolVars
  <2>3. Chain(link, free)' = Chain(link, free)
    BY <2>2 DEF Chain
  <2>4. \A l \in Lists : Available(l)' = Available(l)
    BY <2>2, <2>3 DEF Available
  <2>5. \A l \in Lists : Available(l) \in Int
    <3>1. Available("mqSend") \in Int
      BY DEF Sound, RoomLeft
    <3>2. /\ Available("mbRecv") = mbEntry /\ Available("mbSend") = MbSize - mbEntry
          /\ Available("mqRecv") = mqEntry /\ Available("pool") = freeCount
          /\ mbEntry \in 0 .. MbSize /\ MbSize \in Nat /\ mqEntry \in Nat /\ freeCount \in Nat
      BY Counted DEF Sound, IInv
    <3>3. /\ Available("mbRecv") \in Int /\ Available("mbSend") \in Int
          /\ Available("mqRecv") \in Int /\ Available("pool") \in Int
      BY <3>2
    <3> QED
      BY <3>1, <3>3
  <2> HIDE DEF Lists
  <2>6. \A l \in Lists : Awaited(l)'
    BY <1>1, <1>2, <1>3, <2>1, <2>4, <2>5, AgesAwaited
  <2> QED
    BY <1>1, <2>6
<1>9. ASSUME NEW t \in Thread, EndStep(t) PROVE NoneForgotten'
  <2>1. CASE EndOver(t)
    <3>1. object' = None /\ None \notin DOMAIN ListsOf
      BY <2>1, IpcConstants DEF EndOver
    <3> HIDE DEF Lists
    <3> QED
      BY <1>1, <1>2, <3>1, OthersAwaited
  <2>2. CASE ~EndOver(t)
    <3> HIDE DEF Lists
    <3>1. IInv /\ Errors /\ Errors' /\ Waits'
      BY DEF Sound, QInv, IInv
    <3>2. at'[t] \in Ending /\ at[t] \in {"idle"} \union Ending
      <4>1. t \in Context /\ at = [c \in Context |-> at[c]]
        BY <1>2 DEF Context, Waits
      <4> QED
        BY <1>9, <2>2, <4>1 DEF EndStep, Detach, EndTest, EndWake, EndFail, Goto, Ending, Idle
    <3>3. \A d \in Context \ {t} : Harmless(d)
      BY <1>9, <3>1, EndAlone
    <3>4. \A d \in Context \ {t} : Harmless(d)'
      <4>1. t \in Context
        BY DEF Context
      <4> QED
        BY <1>2, <3>2, <4>1 DEF IInv, Ends
    <3>5. \A l \in Lists : OnTheWay(l) = {} /\ OnTheWay(l)' = {}
      BY <1>1, <1>2, <3>1, <3>2, <3>3, <3>4, NoneOnTheWay, NoneOnTheWayThen
    <3>6. \A l \in Lists : waiters'[l] # <<>> => waiters[l] # <<>>
      <4>1. \A l \in List : Members(waiters'[l]) \subseteq Members(waiters[l])
        BY <1>9, <3>1, EndSections
      <4>2. ASSUME NEW l \in List, waiters[l] = <<>> PROVE waiters'[l] = <<>>
        <5>1. Members(waiters[l]) = {} /\ waiters'[l] \in Seq(Thread)
          BY <3>1, <4>2 DEF Members, Waits
        <5> QED
          BY <4>1, <5>1, NoMembers
      <4> QED
        BY <1>1, <4>2
    <3>7. \A l \in Lists : Available(l)' = Available(l)
      <4>1. UNCHANGED <<mailboxVars, messageQueueVars, memPoolVars>>
        BY <1>9, <3>1, EndMoves
      <4>2. UNCHANGED <<link, free, mqEntry, mbEntry, freeCount>>
        BY <4>1 DEF mailboxVars, messageQueueVars, memPoolVars
      <4>3. Chain(link, free)' = Chain(link, free)
        BY <4>2 DEF Chain
      <4> QED
        BY <4>2, <4>3 DEF Available
    <3> QED
      BY <1>1, <1>3, <3>5, <3>6, <3>7 DEF Awaited
  <2> QED
    BY <2>1, <2>2
<1>10. CASE Create
  <2>1. \A l \in Lists : waiters'[l] = <<>>
    BY <1>1, <1>2, <1>10, IdleMeansEmpty DEF Create, threadVars
  <2> QED
    BY <1>1, <2>1 DEF Awaited
<1>11. CASE UNCHANGED vars
  BY <1>11, StayAwaited
<1> QED
  BY <1>4, <1>5, <1>6, <1>7, <1>8, <1>9, <1>10, <1>11 DEF Next, EndStep

(* No wake-up is lost: while a thread sleeps for mail, room, a message, a   *)
(* cell or a block, all there is of it has a woken thread on its way to it, *)
(* through all time-outs, resets and ends of objects, and although a woken  *)
(* thread finds out for itself whether it was too late.                     *)
THEOREM NoWakeUpIsLost == ASSUME MbRaces = FALSE PROVE Spec => []NoneForgotten
<1>1. Init => NoneForgotten
  BY DEF Init, WaitingInit, NoneForgotten
<1>2. Sound /\ Sound' /\ NoneForgotten /\ [Next]_vars => NoneForgotten'
  BY NextAwaited, StayAwaited
<1>3. Spec => []Sound
  BY MbInvHolds, BlocksHold, CellsAreExact, UnansweredHolds, RoomNow, PTL DEF Sound
<1> QED
  BY <1>1, <1>2, <1>3, PTL DEF Spec
=============================================================================
