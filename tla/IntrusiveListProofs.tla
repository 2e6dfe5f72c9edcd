------------------------ MODULE IntrusiveListProofs ------------------------
(***************************************************************************)
(* What unlinking and linking a node do to a list: who is in it, and in     *)
(* which order.  The proofs about the components that keep lists cite these *)
(* lemmas instead of the definitions.                                       *)
(***************************************************************************)
EXTENDS IntrusiveList, FiniteSets, SequenceTheorems, FiniteSetTheorems,
        FunctionTheorems, WellFoundedInduction, TLAPS

(* Where every element of a list without its i-th node comes from. *)
LEMMA WithoutPlace ==
  ASSUME NEW S, NEW s \in Seq(S), NEW i \in DOMAIN s
  PROVE  LET r == SubSeq(s, 1, i - 1) \o SubSeq(s, i + 1, Len(s))
         IN  /\ r \in Seq(S)
             /\ Len(r) = Len(s) - 1
             /\ \A k \in 1 .. Len(s) - 1 :
                  r[k] = IF k < i THEN s[k] ELSE s[k + 1]
<1> DEFINE a == SubSeq(s, 1, i - 1)
           b == SubSeq(s, i + 1, Len(s))
<1>1. /\ Len(s) \in Nat
      /\ DOMAIN s = 1 .. Len(s)
      /\ i \in 1 .. Len(s)
      /\ \A k \in 1 .. Len(s) : s[k] \in S
  BY LenProperties, ElementOfSeq
<1>2. /\ a \in Seq(S)
      /\ Len(a) = i - 1
      /\ \A k \in 1 .. i - 1 : a[k] = s[k]
  <2>1. \A k \in 1 .. i - 1 : s[k] \in S
    BY <1>1
  <2>2. /\ a \in Seq(S)
        /\ Len(a) = IF 1 <= i - 1 THEN (i - 1) - 1 + 1 ELSE 0
        /\ \A k \in 1 .. (i - 1) - 1 + 1 : a[k] = s[1 + k - 1]
    BY <2>1, <1>1, SubSeqProperties
  <2> QED
    BY <2>2, <1>1
<1>3. /\ b \in Seq(S)
      /\ Len(b) = Len(s) - i
      /\ \A k \in 1 .. Len(s) - i : b[k] = s[i + k]
  <2>1. \A k \in i + 1 .. Len(s) : s[k] \in S
    BY <1>1
  <2>2. /\ b \in Seq(S)
        /\ Len(b) = IF i + 1 <= Len(s) THEN Len(s) - (i + 1) + 1 ELSE 0
        /\ \A k \in 1 .. Len(s) - (i + 1) + 1 : b[k] = s[(i + 1) + k - 1]
    BY <2>1, <1>1, SubSeqProperties
  <2> QED
    BY <2>2, <1>1, SMTT(30)
<1>4. /\ a \o b \in Seq(S)
      /\ Len(a \o b) = Len(a) + Len(b)
      /\ \A k \in 1 .. Len(a) + Len(b) :
           (a \o b)[k] = IF k <= Len(a) THEN a[k] ELSE b[k - Len(a)]
  BY <1>2, <1>3, ConcatProperties
<1> HIDE DEF a, b
<1>5. /\ Len(a \o b) = Len(s) - 1
      /\ \A k \in 1 .. Len(s) - 1 :
           (a \o b)[k] = IF k < i THEN s[k] ELSE s[k + 1]
  <2>1. Len(a) + Len(b) = Len(s) - 1
    BY <1>1, <1>2, <1>3
  <2>2. ASSUME NEW k \in 1 .. Len(s) - 1
        PROVE  (a \o b)[k] = IF k < i THEN s[k] ELSE s[k + 1]
    <3>1. CASE k < i
      BY <3>1, <2>1, <1>1, <1>2, <1>4
    <3>2. CASE ~(k < i)
      <4>1. (a \o b)[k] = b[k - (i - 1)]
        BY <3>2, <2>1, <1>1, <1>2, <1>4, SMTT(30)
      <4>2. k - (i - 1) \in 1 .. Len(s) - i
        BY <3>2, <1>1
      <4>3. b[k - (i - 1)] = s[i + (k - (i - 1))]
        BY <4>2, <1>3
      <4>4. i + (k - (i - 1)) = k + 1
        BY <1>1
      <4> QED
        BY <3>2, <4>1, <4>3, <4>4
    <3> QED
      BY <3>1, <3>2
  <2> QED
    BY <2>1, <2>2, <1>4
<1> QED
  BY <1>4, <1>5 DEF a, b

(* Unlinking a node takes that node out, no other, and keeps the order.     *)
LEMMA UnlinkProperties ==
  ASSUME NEW S, NEW s \in Seq(S), Distinct(s), NEW t
  PROVE  /\ Unlink(s, t) \in Seq(S)
         /\ Distinct(Unlink(s, t))
         /\ Members(Unlink(s, t)) = Members(s) \ {t}
         /\ t \notin Members(s) => Unlink(s, t) = s
         /\ \A i, j \in DOMAIN Unlink(s, t) : i < j =>
              \E k, m \in DOMAIN s :
                /\ k < m
                /\ s[k] = Unlink(s, t)[i]
                /\ s[m] = Unlink(s, t)[j]
<1> DEFINE r == Unlink(s, t)
<1>0. DOMAIN s = 1 .. Len(s) /\ Len(s) \in Nat
  BY LenProperties
<1>1. CASE t \notin Members(s)
  <2>1. r = s
    BY <1>1 DEF Unlink, Members
  <2> QED
    BY <2>1, <1>1 DEF Members
<1>2. CASE t \in Members(s)
  <2>1. \E i \in DOMAIN s : s[i] = t
    BY <1>2 DEF Members
  <2> DEFINE p == CHOOSE i \in DOMAIN s : s[i] = t
  <2>2. p \in DOMAIN s /\ s[p] = t
    BY <2>1
  <2>3. r = SubSeq(s, 1, p - 1) \o SubSeq(s, p + 1, Len(s))
    BY <2>1 DEF Unlink
  <2> HIDE DEF p, r
  <2>4. /\ r \in Seq(S)
        /\ Len(r) = Len(s) - 1
        /\ \A k \in 1 .. Len(s) - 1 : r[k] = IF k < p THEN s[k] ELSE s[k + 1]
    BY <2>2, <2>3, WithoutPlace
  <2>5. DOMAIN r = 1 .. Len(s) - 1
    BY <2>4, LenProperties
  <2> DEFINE from(k) == IF k < p THEN k ELSE k + 1
  <2>6. \A k \in DOMAIN r : from(k) \in DOMAIN s /\ r[k] = s[from(k)] /\ from(k) # p
    BY <1>0, <2>2, <2>4, <2>5
  <2>7. \A k, m \in DOMAIN r : k < m => from(k) < from(m)
    BY <1>0, <2>2, <2>5
  <2>8. Distinct(r)
    BY <1>0, <2>2, <2>5, <2>6 DEF Distinct
  <2>9. \A m \in DOMAIN s \ {p} : \E k \in DOMAIN r : from(k) = m
    <3> TAKE m \in DOMAIN s \ {p}
    <3>1. CASE m < p
      <4>1. m \in DOMAIN r /\ from(m) = m
        BY <3>1, <1>0, <2>2, <2>5
      <4> QED
        BY <4>1
    <3>2. CASE ~(m < p)
      <4>1. m - 1 \in DOMAIN r /\ from(m - 1) = m
        BY <3>2, <1>0, <2>2, <2>5
      <4> QED
        BY <4>1
    <3> QED
      BY <3>1, <3>2
  <2> HIDE DEF from
  <2>10. Members(r) = Members(s) \ {t}
    <3>1. ASSUME NEW k \in DOMAIN r PROVE r[k] \in Members(s) \ {t}
      BY <3>1, <2>2, <2>6 DEF Members, Distinct
    <3>2. ASSUME NEW m \in DOMAIN s, s[m] # t PROVE s[m] \in Members(r)
      <4>1. m # p
        BY <3>2, <2>2
      <4>2. PICK k \in DOMAIN r : from(k) = m
        BY <4>1, <2>9
      <4> QED
        BY <4>2, <2>6 DEF Members
    <3> QED
      BY <3>1, <3>2 DEF Members
  <2>11. \A i, j \in DOMAIN r : i < j =>
           \E k, m \in DOMAIN s : k < m /\ s[k] = r[i] /\ s[m] = r[j]
    BY <2>6, <2>7
  <2> QED
    BY <1>2, <2>4, <2>8, <2>10, <2>11 DEF r
<1> QED
  BY <1>1, <1>2

(* Linking a node behind n others leaves the rest in order around it.       *)
LEMMA LinkBehindProperties ==
  ASSUME NEW S, NEW s \in Seq(S), NEW n \in 0 .. Len(s), NEW t \in S
  PROVE  /\ LinkBehind(s, n, t) \in Seq(S)
         /\ Len(LinkBehind(s, n, t)) = Len(s) + 1
         /\ \A k \in 1 .. Len(s) + 1 :
              LinkBehind(s, n, t)[k] =
                IF k <= n THEN s[k] ELSE IF k = n + 1 THEN t ELSE s[k - 1]
<1> DEFINE a == SubSeq(s, 1, n)
           b == SubSeq(s, n + 1, Len(s))
<1>1. /\ Len(s) \in Nat
      /\ n \in Nat /\ n <= Len(s)
      /\ DOMAIN s = 1 .. Len(s)
      /\ \A k \in 1 .. Len(s) : s[k] \in S
  BY LenProperties, ElementOfSeq
<1>2. /\ a \in Seq(S)
      /\ Len(a) = n
      /\ \A k \in 1 .. n : a[k] = s[k]
  <2>1. \A k \in 1 .. n : s[k] \in S
    BY <1>1
  <2>2. /\ a \in Seq(S)
        /\ Len(a) = IF 1 <= n THEN n - 1 + 1 ELSE 0
        /\ \A k \in 1 .. n - 1 + 1 : a[k] = s[1 + k - 1]
    BY <2>1, <1>1, SubSeqProperties
  <2> QED
    BY <2>2, <1>1
<1>3. /\ b \in Seq(S)
      /\ Len(b) = Len(s) - n
      /\ \A k \in 1 .. Len(s) - n : b[k] = s[n + k]
  <2>1. \A k \in n + 1 .. Len(s) : s[k] \in S
    BY <1>1
  <2>2. /\ b \in Seq(S)
        /\ Len(b) = IF n + 1 <= Len(s) THEN Len(s) - (n + 1) + 1 ELSE 0
        /\ \A k \in 1 .. Len(s) - (n + 1) + 1 : b[k] = s[(n + 1) + k - 1]
    BY <2>1, <1>1, SubSeqProperties
  <2>3. ASSUME NEW k \in 1 .. Len(s) - n PROVE b[k] = s[n + k]
    <3>1. k \in 1 .. Len(s) - (n + 1) + 1 /\ (n + 1) + k - 1 = n + k
      BY <1>1
    <3> QED
      BY <2>2, <3>1
  <2>4. Len(b) = Len(s) - n
    <3>1. \A p, q \in Nat :
            p <= q => (IF p + 1 <= q THEN q - (p + 1) + 1 ELSE 0) = q - p
      OBVIOUS
    <3> QED
      BY <3>1, <2>2, <1>1
  <2> QED
    BY <2>2, <2>3, <2>4
<1> HIDE DEF a, b
<1>4. <<t>> \in Seq(S) /\ Len(<<t>>) = 1 /\ <<t>>[1] = t
  OBVIOUS
<1>5. /\ a \o <<t>> \in Seq(S)
      /\ Len(a \o <<t>>) = n + 1
      /\ \A k \in 1 .. n + 1 : (a \o <<t>>)[k] = IF k <= n THEN s[k] ELSE t
  <2>1. /\ a \o <<t>> \in Seq(S)
        /\ Len(a \o <<t>>) = Len(a) + Len(<<t>>)
        /\ \A k \in 1 .. Len(a) + Len(<<t>>) :
             (a \o <<t>>)[k] = IF k <= Len(a) THEN a[k] ELSE <<t>>[k - Len(a)]
    BY <1>2, <1>4, ConcatProperties
  <2>2. ASSUME NEW k \in 1 .. n + 1
        PROVE  (a \o <<t>>)[k] = IF k <= n THEN s[k] ELSE t
    <3>1. CASE k <= n
      BY <3>1, <2>1, <1>2, <1>4
    <3>2. CASE k = n + 1
      BY <3>2, <2>1, <1>2, <1>4
    <3>3. k <= n \/ k = n + 1
      BY <1>1
    <3> QED
      BY <3>1, <3>2, <3>3
  <2> QED
    BY <2>1, <2>2, <1>2, <1>4
<1> DEFINE c == a \o <<t>>
<1> HIDE DEF c
<1>6. /\ c \o b \in Seq(S)
      /\ Len(c \o b) = Len(s) + 1
      /\ \A k \in 1 .. Len(s) + 1 :
           (c \o b)[k] = IF k <= n + 1 THEN c[k] ELSE b[k - (n + 1)]
  <2>1. c \in Seq(S) /\ Len(c) = n + 1
    BY <1>5 DEF c
  <2>2. /\ c \o b \in Seq(S)
        /\ Len(c \o b) = Len(c) + Len(b)
        /\ \A k \in 1 .. Len(c) + Len(b) :
             (c \o b)[k] = IF k <= Len(c) THEN c[k] ELSE b[k - Len(c)]
    BY <2>1, <1>3, ConcatProperties
  <2>3. Len(c) + Len(b) = Len(s) + 1
    BY <2>1, <1>1, <1>3
  <2> QED
    BY <2>1, <2>2, <2>3
<1>7. ASSUME NEW k \in 1 .. Len(s) + 1
      PROVE  (c \o b)[k] =
               IF k <= n THEN s[k] ELSE IF k = n + 1 THEN t ELSE s[k - 1]
  <2>1. CASE k <= n + 1
    BY <2>1, <1>5, <1>6 DEF c
  <2>2. CASE ~(k <= n + 1)
    <3>1. k - (n + 1) \in 1 .. Len(s) - n /\ n + (k - (n + 1)) = k - 1
      BY <2>2, <1>1
    <3>2. b[k - (n + 1)] = s[k - 1]
      BY <3>1, <1>3
    <3>3. (c \o b)[k] = b[k - (n + 1)]
      BY <2>2, <1>6
    <3>4. ~(k <= n) /\ k # n + 1
      BY <2>2, <1>1
    <3> QED
      BY <3>2, <3>3, <3>4
  <2> QED
    BY <2>1, <2>2
<1>8. LinkBehind(s, n, t) = c \o b
  BY DEF LinkBehind, a, b, c
<1> QED
  BY <1>6, <1>7, <1>8

(* A node linked into a list it is not in makes one member more.            *)
LEMMA LinkBehindMembers ==
  ASSUME NEW S, NEW s \in Seq(S), NEW n \in 0 .. Len(s), NEW t \in S
  PROVE  /\ Members(LinkBehind(s, n, t)) = Members(s) \union {t}
         /\ Distinct(s) /\ t \notin Members(s) => Distinct(LinkBehind(s, n, t))
<1> DEFINE r == LinkBehind(s, n, t)
<1>a. Len(s) \in Nat /\ DOMAIN s = 1 .. Len(s)
  BY LenProperties
<1>b. r \in Seq(S) /\ Len(r) = Len(s) + 1
  BY LinkBehindProperties
<1>c. \A k \in 1 .. Len(s) + 1 :
        r[k] = IF k <= n THEN s[k] ELSE IF k = n + 1 THEN t ELSE s[k - 1]
  BY LinkBehindProperties
<1> HIDE DEF r
<1>d. DOMAIN r = 1 .. Len(s) + 1
  BY <1>b, LenProperties
<1>1. /\ Len(s) \in Nat
      /\ DOMAIN s = 1 .. Len(s)
      /\ DOMAIN r = 1 .. Len(s) + 1
      /\ \A k \in 1 .. Len(s) + 1 :
           r[k] = IF k <= n THEN s[k] ELSE IF k = n + 1 THEN t ELSE s[k - 1]
  BY <1>a, <1>c, <1>d
<1>2. \A k \in DOMAIN r : r[k] \in Members(s) \union {t}
  <2> TAKE k \in DOMAIN r
  <2>1. CASE k <= n
    BY <2>1, <1>1 DEF Members
  <2>2. CASE k = n + 1
    BY <2>2, <1>1
  <2>3. CASE n + 1 < k
    <3>1. k - 1 \in DOMAIN s /\ r[k] = s[k - 1]
      BY <2>3, <1>1
    <3> QED
      BY <3>1 DEF Members
  <2> QED
    BY <2>1, <2>2, <2>3, <1>1
<1>3. t \in Members(r)
  <2>1. n + 1 \in DOMAIN r /\ r[n + 1] = t
    BY <1>1
  <2> QED
    BY <2>1 DEF Members
<1>4. ASSUME NEW m \in DOMAIN s PROVE s[m] \in Members(r)
  <2>1. CASE m <= n
    <3>1. m \in DOMAIN r /\ r[m] = s[m]
      BY <2>1, <1>1
    <3> QED
      BY <3>1 DEF Members
  <2>2. CASE ~(m <= n)
    <3>1. m + 1 \in DOMAIN r /\ r[m + 1] = s[m]
      BY <2>2, <1>1
    <3> QED
      BY <3>1 DEF Members
  <2> QED
    BY <2>1, <2>2
<1>5. ASSUME Distinct(s), t \notin Members(s) PROVE Distinct(r)
  <2>1. \A m \in 1 .. Len(s) : s[m] # t
    BY <1>1, <1>5 DEF Members
  <2>2. \A m, k \in 1 .. Len(s) : s[m] = s[k] => m = k
    BY <1>1, <1>5 DEF Distinct
  <2>3. SUFFICES ASSUME NEW i \in 1 .. Len(s) + 1, NEW j \in 1 .. Len(s) + 1,
                        r[i] = r[j], i < j
                 PROVE  FALSE
    BY <1>1 DEF Distinct
  <2>4. i <= n => i \in 1 .. Len(s) /\ r[i] = s[i]
    BY <1>1
  <2>5. j <= n => j \in 1 .. Len(s) /\ r[j] = s[j]
    BY <1>1
  <2>6. i > n + 1 => i - 1 \in 1 .. Len(s) /\ r[i] = s[i - 1]
    BY <1>1
  <2>7. j > n + 1 => j - 1 \in 1 .. Len(s) /\ r[j] = s[j - 1]
    BY <1>1
  <2>8. /\ i = n + 1 => r[i] = t
        /\ j = n + 1 => r[j] = t
    BY <1>1
  <2> QED
    BY <1>1, <2>1, <2>2, <2>3, <2>4, <2>5, <2>6, <2>7, <2>8
<1> QED
  BY <1>2, <1>3, <1>4, <1>5 DEF r, Members

(* rt_list_insert_before the head of a list: its last node.                 *)
LEMMA AppendMembers ==
  ASSUME NEW S, NEW s \in Seq(S), NEW t \in S
  PROVE  /\ Append(s, t) \in Seq(S)
         /\ Members(Append(s, t)) = Members(s) \union {t}
         /\ Distinct(s) /\ t \notin Members(s) => Distinct(Append(s, t))
<1> DEFINE r == Append(s, t)
<1>1. /\ r \in Seq(S)
      /\ Len(s) \in Nat
      /\ DOMAIN s = 1 .. Len(s)
      /\ DOMAIN r = 1 .. Len(s) + 1
      /\ \A k \in 1 .. Len(s) : r[k] = s[k]
      /\ r[Len(s) + 1] = t
  BY AppendProperties, LenProperties
<1> HIDE DEF r
<1>2. Members(r) = Members(s) \union {t}
  BY <1>1 DEF Members
<1>3. ASSUME Distinct(s), t \notin Members(s) PROVE Distinct(r)
  <2>1. \A m \in DOMAIN s : s[m] # t
    BY <1>3 DEF Members
  <2> QED
    BY <1>1, <1>3, <2>1 DEF Distinct
<1> QED
  BY <1>1, <1>2, <1>3 DEF r

(* Taking the first node off a list.                                        *)
LEMMA TailMembers ==
  ASSUME NEW S, NEW s \in Seq(S), s # <<>>, Distinct(s)
  PROVE  /\ Tail(s) \in Seq(S)
         /\ Head(s) \in Members(s)
         /\ Members(Tail(s)) = Members(s) \ {Head(s)}
         /\ Distinct(Tail(s))
         /\ DOMAIN Tail(s) = 1 .. Len(s) - 1
         /\ \A i \in DOMAIN Tail(s) : i + 1 \in DOMAIN s /\ Tail(s)[i] = s[i + 1]
<1> DEFINE r == Tail(s)
<1>1. /\ r \in Seq(S)
      /\ Len(s) \in Nat \ {0}
      /\ DOMAIN s = 1 .. Len(s)
      /\ DOMAIN r = 1 .. Len(s) - 1
      /\ \A k \in 1 .. Len(s) - 1 : r[k] = s[k + 1]
  BY HeadTailProperties, LenProperties, EmptySeq
<1>2. Head(s) = s[1]
  BY <1>1
<1> HIDE DEF r
<1>3. Distinct(r)
  <2>1. \A i, j \in 1 .. Len(s) : s[i] = s[j] => i = j
    BY <1>1 DEF Distinct
  <2>2. SUFFICES ASSUME NEW i \in 1 .. Len(s) - 1, NEW j \in 1 .. Len(s) - 1,
                        r[i] = r[j]
                 PROVE  i = j
    BY <1>1 DEF Distinct
  <2>3. s[i + 1] = s[j + 1] /\ i + 1 \in 1 .. Len(s) /\ j + 1 \in 1 .. Len(s)
    BY <1>1, <2>2
  <2>4. i + 1 = j + 1
    BY <2>1, <2>3
  <2> QED
    BY <2>4, <1>1
<1>4. ASSUME NEW k \in DOMAIN r PROVE r[k] \in Members(s) \ {s[1]}
  BY <1>1 DEF Members, Distinct
<1>5. ASSUME NEW m \in DOMAIN s, s[m] # s[1] PROVE s[m] \in Members(r)
  <2>1. m - 1 \in DOMAIN r /\ r[m - 1] = s[m]
    BY <1>1, <1>5
  <2> QED
    BY <2>1 DEF Members
<1>6. Members(r) = Members(s) \ {s[1]}
  BY <1>4, <1>5 DEF Members
<1>7. Head(s) \in Members(s)
  BY <1>1, <1>2 DEF Members
<1>8. \A i \in DOMAIN r : i + 1 \in DOMAIN s /\ r[i] = s[i + 1]
  BY <1>1
<1> QED
  BY <1>1, <1>2, <1>3, <1>6, <1>7, <1>8 DEF r

(* A list is empty when nothing is in it.                                   *)
LEMMA NoMembers ==
  ASSUME NEW S, NEW s \in Seq(S)
  PROVE  Members(s) = {} <=> s = <<>>
<1>1. s # <<>> => 1 \in DOMAIN s
  BY EmptySeq, LenProperties
<1> QED
  BY <1>1 DEF Members

(* The search of rt_timer_start: what it passes is a prefix. *)
LEMMA PrefixCount ==
  ASSUME NEW n \in Nat, NEW B
  PROVE  LET S == {i \in 1 .. n : \A j \in 1 .. i : j \in B}
         IN  \E k \in 0 .. n : /\ Cardinality(S) = k
                               /\ \A j \in 1 .. k : j \in B
                               /\ k < n => k + 1 \notin B
<1> DEFINE S == {i \in 1 .. n : \A j \in 1 .. i : j \in B}
           G == {i \in 1 .. n : i \notin B}
<1>1. ASSUME NEW k \in 0 .. n, \A j \in 1 .. k : j \in B, k < n => k + 1 \notin B
      PROVE  Cardinality(S) = k
  <2>1. S = 1 .. k
    <3>1. \A i \in 1 .. k : i \in S
      BY <1>1
    <3>2. ASSUME NEW i \in S, k < i PROVE FALSE
      <4>1. k < n /\ k + 1 \in 1 .. i
        BY <3>2
      <4> QED
        BY <1>1, <3>2, <4>1
    <3> QED
      BY <3>1, <3>2
  <2>2. Cardinality(1 .. k) = k
    BY FS_Interval
  <2> QED
    BY <2>1, <2>2
<1>2. CASE G = {}
  <2>1. n \in 0 .. n /\ \A j \in 1 .. n : j \in B
    BY <1>2
  <2> QED
    BY <1>1, <2>1
<1>3. CASE G # {}
  <2>1. G \subseteq Nat
    OBVIOUS
  <2>2. PICK m \in G : \A i \in G : ~(<<i, m>> \in OpToRel(<, Nat))
    BY <1>3, <2>1, NatLessThanWellFounded, WFMin, Zenon
  <2>3. m \in 1 .. n /\ m \notin B /\ \A i \in G : ~(i < m)
    BY <2>1, <2>2 DEF OpToRel
  <2>4. m - 1 \in 0 .. n /\ \A j \in 1 .. m - 1 : j \in B
    BY <2>3
  <2>5. (m - 1) + 1 \notin B
    BY <2>3
  <2> HIDE DEF S, G
  <2> QED
    BY <1>1, <2>4, <2>5 DEF S
<1> QED
  BY <1>2, <1>3


\* A list in the order of w, each node in it once.
InOrder(s, w) ==
  \A i, j \in DOMAIN s : i < j => s[i] # s[j] /\ w[s[i]] <= w[s[j]]

(* An ordered list holds each node once.                                    *)
LEMMA InOrderDistinct ==
  ASSUME NEW S, NEW s \in Seq(S), NEW w, InOrder(s, w)
  PROVE  Distinct(s)
<1>1. \A i, j \in DOMAIN s : i < j \/ j < i \/ i = j
  BY LenProperties
<1> QED
  BY <1>1 DEF InOrder, Distinct

(* What is left of an ordered list is in order.                             *)
LEMMA UnlinkInOrder ==
  ASSUME NEW S, NEW s \in Seq(S), NEW w, InOrder(s, w), NEW t
  PROVE  InOrder(Unlink(s, t), w)
<1>1. \A i, j \in DOMAIN Unlink(s, t) : i < j =>
        \E k, m \in DOMAIN s : /\ k < m
                               /\ s[k] = Unlink(s, t)[i]
                               /\ s[m] = Unlink(s, t)[j]
  BY InOrderDistinct, UnlinkProperties
<1> QED
  BY <1>1 DEF InOrder

(* The place behind all that are at least as urgent as t: those in front    *)
(* are, those behind are not.                                               *)
LEMMA PlaceInOrder ==
  ASSUME NEW S, NEW s \in Seq(S), NEW t \in S, NEW w \in [S -> Nat],
         InOrder(s, w)
  PROVE  LET n == Cardinality({i \in DOMAIN s : w[s[i]] <= w[t]})
         IN  /\ n \in 0 .. Len(s)
             /\ \A j \in 1 .. n : w[s[j]] <= w[t]
             /\ \A j \in n + 1 .. Len(s) : w[t] < w[s[j]]
<1> DEFINE B == {i \in DOMAIN s : w[s[i]] <= w[t]}
           n == Cardinality(B)
<1>1. /\ Len(s) \in Nat
      /\ DOMAIN s = 1 .. Len(s)
      /\ \A i \in 1 .. Len(s) : s[i] \in S /\ w[s[i]] \in Nat
  BY LenProperties, ElementOfSeq
<1>2. w[t] \in Nat
  OBVIOUS
<1>3. /\ B \subseteq 1 .. Len(s)
      /\ \A i \in B : \A j \in 1 .. i : j \in B
  <2>1. ASSUME NEW i \in B, NEW j \in 1 .. i PROVE j \in B
    <3>1. i \in 1 .. Len(s) /\ j \in 1 .. Len(s) /\ (j = i \/ j < i)
      BY <1>1
    <3>2. w[s[j]] <= w[s[i]]
      BY <1>1, <3>1 DEF InOrder
    <3>3. w[s[i]] <= w[t]
      OBVIOUS
    <3> QED
      BY <1>1, <1>2, <3>1, <3>2, <3>3
  <2> QED
    BY <1>1, <2>1
<1> HIDE DEF B
<1>4. PICK k \in 0 .. Len(s) : /\ n = k
                               /\ \A j \in 1 .. k : j \in B
                               /\ k < Len(s) => k + 1 \notin B
  <2> DEFINE P == {i \in 1 .. Len(s) : \A j \in 1 .. i : j \in B}
  <2>1. \E k \in 0 .. Len(s) : /\ Cardinality(P) = k
                               /\ \A j \in 1 .. k : j \in B
                               /\ k < Len(s) => k + 1 \notin B
    BY <1>1, PrefixCount
  <2>2. P = B
    <3>1. \A i \in 1 .. Len(s) : i \in 1 .. i
      OBVIOUS
    <3> QED
      BY <1>3, <3>1
  <2> HIDE DEF P
  <2> QED
    BY <2>1, <2>2
<1>5. n \in 0 .. Len(s)
  BY <1>4
<1>6. /\ \A j \in 1 .. n : w[s[j]] <= w[t]
      /\ \A j \in n + 1 .. Len(s) : w[t] < w[s[j]]
  <2>1. \A j \in 1 .. n : w[s[j]] <= w[t]
    BY <1>4 DEF B
  <2>2. ASSUME NEW j \in n + 1 .. Len(s) PROVE w[t] < w[s[j]]
    <3>1. k = n /\ j \in 1 .. Len(s) /\ k + 1 \in 1 .. j
      BY <1>1, <1>4, <2>2
    <3>2. j \notin B
      BY <1>1, <1>3, <1>4, <3>1
    <3> QED
      BY <1>1, <1>2, <3>1, <3>2 DEF B
  <2> QED
    BY <2>1, <2>2
<1> QED
  BY <1>5, <1>6 DEF n, B

(* Behind the nodes that come no later a node is in its place.              *)
LEMMA LinkInOrder ==
  ASSUME NEW S, NEW s \in Seq(S), NEW t \in S, NEW w \in [S -> Nat],
         InOrder(s, w), t \notin Members(s)
  PROVE  LET n == Cardinality({i \in DOMAIN s : w[s[i]] <= w[t]})
         IN  n \in 0 .. Len(s) /\ InOrder(LinkBehind(s, n, t), w)
<1> DEFINE B == {i \in DOMAIN s : w[s[i]] <= w[t]}
           n == Cardinality(B)
           r == LinkBehind(s, n, t)
<1>1. /\ Len(s) \in Nat
      /\ DOMAIN s = 1 .. Len(s)
      /\ \A i \in 1 .. Len(s) : s[i] \in S /\ w[s[i]] \in Nat /\ s[i] # t
  BY LenProperties, ElementOfSeq DEF Members
<1>2. w[t] \in Nat
  OBVIOUS
<1>3. /\ n \in 0 .. Len(s)
      /\ \A j \in 1 .. n : w[s[j]] <= w[t]
      /\ \A j \in n + 1 .. Len(s) : w[t] < w[s[j]]
  BY PlaceInOrder
<1> HIDE DEF n, B
<1>4. /\ \A j \in 1 .. n : w[s[j]] <= w[t]
      /\ \A j \in n + 1 .. Len(s) : w[t] <= w[s[j]]
  <2>1. ASSUME NEW j \in n + 1 .. Len(s) PROVE w[t] <= w[s[j]]
    <3>1. w[t] < w[s[j]] /\ j \in 1 .. Len(s)
      BY <1>1, <1>3, <2>1
    <3> QED
      BY <1>1, <1>2, <3>1
  <2> QED
    BY <1>3, <2>1
<1>5. /\ DOMAIN r = 1 .. Len(s) + 1
      /\ \A i \in 1 .. Len(s) + 1 :
           r[i] = IF i <= n THEN s[i] ELSE IF i = n + 1 THEN t ELSE s[i - 1]
  <2>1. /\ r \in Seq(S)
        /\ Len(r) = Len(s) + 1
        /\ \A i \in 1 .. Len(s) + 1 :
             r[i] = IF i <= n THEN s[i] ELSE IF i = n + 1 THEN t ELSE s[i - 1]
    <3> HIDE DEF r
    <3>1. ASSUME NEW m \in 0 .. Len(s)
          PROVE  /\ LinkBehind(s, m, t) \in Seq(S)
                 /\ Len(LinkBehind(s, m, t)) = Len(s) + 1
                 /\ \A k \in 1 .. Len(s) + 1 :
                      LinkBehind(s, m, t)[k] =
                        IF k <= m THEN s[k] ELSE IF k = m + 1 THEN t ELSE s[k - 1]
      <4>1. LinkBehind(s, m, t) \in Seq(S)
        BY LinkBehindProperties
      <4>2. Len(LinkBehind(s, m, t)) = Len(s) + 1
        BY LinkBehindProperties
      <4>3. \A k \in 1 .. Len(s) + 1 :
              LinkBehind(s, m, t)[k] =
                IF k <= m THEN s[k] ELSE IF k = m + 1 THEN t ELSE s[k - 1]
        BY LinkBehindProperties
      <4> QED
        BY <4>1, <4>2, <4>3
    <3>2. r = LinkBehind(s, n, t)
      BY DEF r
    <3> QED
      BY <1>3, <3>1, <3>2
  <2> QED
    BY <2>1, LenProperties
<1> HIDE DEF r
<1>6. ASSUME NEW i \in DOMAIN r, NEW j \in DOMAIN r, i < j
      PROVE  r[i] # r[j] /\ w[r[i]] <= w[r[j]]
  <2>1. i \in 1 .. Len(s) + 1 /\ j \in 1 .. Len(s) + 1 /\ n \in 0 .. Len(s)
    BY <1>3, <1>5
  <2>2. CASE j <= n
    BY <2>1, <2>2, <1>1, <1>5, <1>6 DEF InOrder
  <2>3. CASE j = n + 1
    <3>1. r[j] = t /\ i \in 1 .. n /\ i \in 1 .. Len(s) /\ r[i] = s[i]
      BY <2>1, <2>3, <1>1, <1>5, <1>6
    <3> QED
      BY <3>1, <1>1, <1>4
  <2>4. CASE n + 1 < j
    <3>1. r[j] = s[j - 1] /\ j - 1 \in 1 .. Len(s) /\ j - 1 \in n + 1 .. Len(s)
      BY <2>1, <2>4, <1>1, <1>5
    <3>2. CASE i <= n
      <4>1. r[i] = s[i] /\ i \in 1 .. Len(s) /\ i < j - 1
        BY <2>1, <2>4, <3>2, <1>1, <1>5
      <4> QED
        BY <3>1, <4>1, <1>1 DEF InOrder
    <3>3. CASE i = n + 1
      <4>1. r[i] = t
        BY <2>1, <3>3, <1>1, <1>5
      <4> QED
        BY <3>1, <4>1, <1>1, <1>4
    <3>4. CASE n + 1 < i
      <4>1. r[i] = s[i - 1]
        BY <2>1, <3>4, <1>5
      <4>2. i - 1 \in 1 .. Len(s) /\ i - 1 < j - 1
        BY <2>1, <3>4, <1>1, <1>6
      <4> QED
        BY <3>1, <4>1, <4>2, <1>1, SMTT(30) DEF InOrder
    <3> QED
      BY <2>1, <3>2, <3>3, <3>4
  <2> QED
    BY <2>1, <2>2, <2>3, <2>4
<1> QED
  BY <1>3, <1>6 DEF InOrder, n, B, r

-----------------------------------------------------------------------------
(* Recursion along a list: a set of places that holds 0 and with each place *)
(* the next one holds all of them.                                          *)
LEMMA PlaceInduction ==
  ASSUME NEW n \in Nat, NEW P, 0 \in P, \A i \in 1 .. n : i - 1 \in P => i \in P
  PROVE  \A i \in 0 .. n : i \in P
<1> DEFINE G == {i \in 0 .. n : i \notin P}
<1> SUFFICES ASSUME G # {} PROVE FALSE
  OBVIOUS
<1>1. G \subseteq Nat
  OBVIOUS
<1>2. PICK m \in G : \A i \in G : ~(<<i, m>> \in OpToRel(<, Nat))
  BY <1>1, NatLessThanWellFounded, WFMin, Zenon
<1>3. m \in 0 .. n /\ m \notin P /\ \A i \in G : ~(i < m)
  BY <1>1, <1>2 DEF OpToRel
<1>4. m \in 1 .. n /\ m - 1 \in 0 .. n /\ m - 1 < m
  BY <1>3
<1> QED
  BY <1>3, <1>4

\* The function that recursion by the steps F makes of a.
Iterates(f, n, a, F) == f[0] = a /\ \A i \in 1 .. n : f[i] = F[i][f[i - 1]]

(* There is such a function.                                                *)
LEMMA IteratesExist ==
  ASSUME NEW n \in Nat, NEW S, NEW a \in S, NEW F \in [1 .. n -> [S -> S]]
  PROVE  \E f \in [0 .. n -> S] : Iterates(f, n, a, F)
<1> DEFINE P == {k \in 0 .. n : \E f \in [0 .. k -> S] : Iterates(f, k, a, F)}
<1>1. 0 \in P
  <2> DEFINE f == [i \in 0 .. 0 |-> a]
  <2>1. f \in [0 .. 0 -> S] /\ Iterates(f, 0, a, F)
    BY DEF Iterates
  <2> QED
    BY <2>1
<1>2. ASSUME NEW k \in 1 .. n, k - 1 \in P PROVE k \in P
  <2>1. PICK g \in [0 .. k - 1 -> S] : Iterates(g, k - 1, a, F)
    BY <1>2
  <2> DEFINE f == [i \in 0 .. k |-> IF i = k THEN F[k][g[k - 1]] ELSE g[i]]
  <2>2. F[k] \in [S -> S] /\ g[k - 1] \in S
    OBVIOUS
  <2>3. f \in [0 .. k -> S]
    BY <2>2
  <2>4. f[0] = a
    BY <2>1 DEF Iterates
  <2>5. ASSUME NEW i \in 1 .. k PROVE f[i] = F[i][f[i - 1]]
    <3>1. CASE i = k
      BY <3>1
    <3>2. CASE i # k
      <4>1. i \in 1 .. k - 1 /\ i - 1 # k /\ i - 1 \in 0 .. k
        BY <3>2
      <4>2. g[i] = F[i][g[i - 1]]
        BY <2>1, <4>1 DEF Iterates
      <4> QED
        BY <3>2, <4>1, <4>2
    <3> QED
      BY <3>1, <3>2
  <2>6. Iterates(f, k, a, F)
    BY <2>4, <2>5 DEF Iterates
  <2> QED
    BY <2>3, <2>6
<1>3. \A k \in 0 .. n : k \in P
  <2> HIDE DEF P
  <2> QED
    BY <1>1, <1>2, PlaceInduction
<1>4. n \in P
  BY <1>3
<1> QED
  BY <1>4

(* What rt_list_remove of several nodes leaves, in terms of how it goes on. *)
LEMMA UnlinkAllSteps ==
  ASSUME NEW S, NEW s \in Seq(S), NEW ts
  PROVE  \E f : /\ f[0] = <<>>
                /\ \A i \in 1 .. Len(s) :
                     f[i] = IF s[i] \in ts THEN f[i - 1] ELSE Append(f[i - 1], s[i])
                /\ UnlinkAll(s, ts) = f[Len(s)]
<1> DEFINE D(f) == [i \in 0 .. Len(s) |->
                      IF i = 0 THEN <<>>
                      ELSE IF s[i] \in ts THEN f[i - 1] ELSE Append(f[i - 1], s[i])]
           F == [i \in 1 .. Len(s) |-> [r \in Seq(S) |->
                   IF s[i] \in ts THEN r ELSE Append(r, s[i])]]
           h == CHOOSE f : f = D(f)
<1>1. F \in [1 .. Len(s) -> [Seq(S) -> Seq(S)]]
  <2>1. ASSUME NEW i \in 1 .. Len(s), NEW r \in Seq(S)
        PROVE  (IF s[i] \in ts THEN r ELSE Append(r, s[i])) \in Seq(S)
    OBVIOUS
  <2> QED
    BY <2>1
<1>2. PICK f \in [0 .. Len(s) -> Seq(S)] : Iterates(f, Len(s), <<>>, F)
  <2>1. <<>> \in Seq(S) /\ Len(s) \in Nat
    OBVIOUS
  <2> HIDE DEF F
  <2> QED
    BY <1>1, <2>1, IteratesExist
<1>3. ASSUME NEW i \in 0 .. Len(s) PROVE f[i] = D(f)[i]
  <2>1. CASE i = 0
    BY <1>2, <2>1 DEF Iterates
  <2>2. CASE i # 0
    <3>1. i \in 1 .. Len(s) /\ f[i - 1] \in Seq(S)
      BY <2>2
    <3>2. f[i] = F[i][f[i - 1]]
      BY <1>2, <3>1 DEF Iterates
    <3> QED
      BY <2>2, <3>1, <3>2
  <2> QED
    BY <2>1, <2>2
<1>4. f = D(f)
  BY <1>3
<1>5. h = D(h)
  BY <1>4, Zenon
<1>6. UnlinkAll(s, ts) = h[Len(s)]
  BY DEF UnlinkAll
<1> HIDE DEF h
<1>7. ASSUME NEW i \in 0 .. Len(s) PROVE h[i] = D(h)[i]
  BY <1>5
<1>8. h[0] = <<>>
  BY <1>7
<1>9. ASSUME NEW i \in 1 .. Len(s)
      PROVE  h[i] = IF s[i] \in ts THEN h[i - 1] ELSE Append(h[i - 1], s[i])
  BY <1>7
<1> QED
  BY <1>6, <1>8, <1>9

(* The other nodes stay, each once, in their order.                         *)
LEMMA UnlinkAllProperties ==
  ASSUME NEW S, NEW s \in Seq(S), NEW ts
  PROVE  LET r == UnlinkAll(s, ts)
         IN  /\ r \in Seq(S)
             /\ Members(r) = Members(s) \ ts
             /\ Distinct(s) => Distinct(r)
             /\ \A w : InOrder(s, w) => InOrder(r, w)
<1>1. PICK f : /\ f[0] = <<>>
               /\ \A i \in 1 .. Len(s) :
                    f[i] = IF s[i] \in ts THEN f[i - 1] ELSE Append(f[i - 1], s[i])
               /\ UnlinkAll(s, ts) = f[Len(s)]
  BY UnlinkAllSteps
<1> DEFINE Good(k) ==
             /\ f[k] \in Seq(S)
             /\ Members(f[k]) = {s[i] : i \in 1 .. k} \ ts
             /\ Distinct(s) => Distinct(f[k])
             /\ \A w : InOrder(s, w) => InOrder(f[k], w)
           P == {k \in 0 .. Len(s) : Good(k)}
<1>2. 0 \in P
  <2>1. f[0] \in Seq(S) /\ DOMAIN f[0] = {} /\ 1 .. 0 = {} /\ Len(s) \in Nat
    BY <1>1
  <2>2. Members(f[0]) = {s[i] : i \in 1 .. 0} \ ts
    BY <2>1 DEF Members
  <2>3. Distinct(f[0]) /\ \A w : InOrder(f[0], w)
    BY <2>1 DEF Distinct, InOrder
  <2> QED
    BY <2>1, <2>2, <2>3
<1>3. ASSUME NEW k \in 1 .. Len(s), k - 1 \in P PROVE k \in P
  <2> DEFINE q == f[k - 1]
  <2>1. Good(k - 1)
    BY <1>3
  <2>2. f[k] = IF s[k] \in ts THEN q ELSE Append(q, s[k])
    BY <1>1
  <2>3. {s[i] : i \in 1 .. k} = {s[i] : i \in 1 .. k - 1} \union {s[k]}
    <3>1. \A i \in 1 .. k : i \in 1 .. k - 1 \/ i = k
      OBVIOUS
    <3> QED
      BY <3>1
  <2>4. CASE s[k] \in ts
    BY <2>1, <2>2, <2>3, <2>4
  <2>5. CASE s[k] \notin ts
    <3>1. q \in Seq(S) /\ s[k] \in S
      BY <2>1
    <3>2. f[k] \in Seq(S) /\ Members(f[k]) = Members(q) \union {s[k]}
      BY <2>2, <2>5, <3>1, AppendMembers
    <3>3. Members(f[k]) = {s[i] : i \in 1 .. k} \ ts
      BY <2>1, <2>3, <2>5, <3>2
    <3>4. ASSUME Distinct(s) PROVE Distinct(f[k])
      <4>1. \A i \in 1 .. k - 1 : s[i] # s[k]
        BY <3>4 DEF Distinct
      <4>2. s[k] \notin Members(q)
        BY <2>1, <4>1
      <4> QED
        BY <2>1, <2>2, <2>5, <3>1, <3>4, <4>2, AppendMembers
    <3>5. ASSUME NEW w, InOrder(s, w) PROVE InOrder(f[k], w)
      <4>1. \A i \in 1 .. k - 1 : s[i] # s[k] /\ w[s[i]] <= w[s[k]]
        BY <3>5 DEF InOrder
      <4>2. \A x \in Members(q) : x # s[k] /\ w[x] <= w[s[k]]
        BY <2>1, <4>1
      <4>3. InOrder(q, w)
        BY <2>1, <3>5
      <4>4. \A i \in DOMAIN q : q[i] \in Members(q)
        BY DEF Members
      <4>5. f[k] = Append(q, s[k])
        BY <2>2, <2>5
      <4>6. ASSUME NEW i \in DOMAIN f[k], NEW j \in DOMAIN f[k], i < j
            PROVE  f[k][i] # f[k][j] /\ w[f[k][i]] <= w[f[k][j]]
        <5>1. i \in DOMAIN q /\ f[k][i] = q[i]
          BY <3>1, <4>5, <4>6
        <5>2. CASE j \in DOMAIN q
          <6>1. f[k][j] = q[j]
            BY <3>1, <4>5, <5>2
          <6> QED
            BY <4>3, <4>6, <5>1, <5>2, <6>1 DEF InOrder
        <5>3. CASE j \notin DOMAIN q
          <6>1. f[k][j] = s[k]
            BY <3>1, <4>5, <5>3
          <6> QED
            BY <4>2, <4>4, <5>1, <6>1
        <5> QED
          BY <5>2, <5>3
      <4> QED
        BY <4>6 DEF InOrder
    <3> QED
      BY <3>2, <3>3, <3>4, <3>5
  <2> QED
    BY <2>4, <2>5
<1>4. \A k \in 0 .. Len(s) : k \in P
  <2>1. Len(s) \in Nat
    OBVIOUS
  <2> HIDE DEF P
  <2> QED
    BY <1>2, <1>3, <2>1, PlaceInduction
<1>5. Good(Len(s))
  <2>1. Len(s) \in 0 .. Len(s)
    OBVIOUS
  <2> HIDE DEF Good
  <2> QED
    BY <1>4, <2>1
<1>6. {s[i] : i \in 1 .. Len(s)} = Members(s)
  BY DEF Members
<1> QED
  BY <1>1, <1>5, <1>6

(* A list of finitely many nodes is not longer than their number.           *)
LEMMA DistinctLength ==
  ASSUME NEW S, IsFiniteSet(S), NEW s \in Seq(S), Distinct(s)
  PROVE  Len(s) <= Cardinality(S)
<1> DEFINE n == Len(s)
<1>1. n \in Nat /\ s \in [1 .. n -> S]
  OBVIOUS
<1> HIDE DEF n
<1>2. Cardinality(S) \in Nat
  BY FS_CardinalityType
<1>3. IsFiniteSet(1 .. n) /\ Cardinality(1 .. n) = n
  BY <1>1, FS_Interval
<1>4. ASSUME Cardinality(S) < n PROVE FALSE
  <2>1. PICK x \in 1 .. n, y \in 1 .. n : x # y /\ s[x] = s[y]
    BY <1>1, <1>3, <1>4, FS_PigeonHole
  <2> QED
    BY <1>1, <2>1 DEF Distinct
<1> QED
  BY <1>1, <1>2, <1>4 DEF n

(* A node is put in front of all others.                                    *)
LEMMA PrependMembers ==
  ASSUME NEW S, NEW s \in Seq(S), NEW t \in S
  PROVE  LET r == <<t>> \o s
         IN  /\ r \in Seq(S) /\ Len(r) = Len(s) + 1 /\ r # <<>>
             /\ r[1] = t
             /\ \A i \in 1 .. Len(s) : r[i + 1] = s[i]
             /\ Members(r) = Members(s) \union {t}
             /\ Distinct(s) /\ t \notin Members(s) => Distinct(r)
<1> DEFINE r == <<t>> \o s
           n == Len(s)
<1>1. /\ n \in Nat /\ DOMAIN s = 1 .. n
      /\ r \in Seq(S) /\ Len(r) = n + 1 /\ DOMAIN r = 1 .. n + 1 /\ r # <<>>
      /\ r[1] = t /\ \A i \in 1 .. n : r[i + 1] = s[i]
  OBVIOUS
<1> HIDE DEF r, n
<1>2. ASSUME NEW i \in 1 .. n + 1, i # 1
      PROVE  i - 1 \in 1 .. n /\ r[i] = s[i - 1]
  <2>1. i - 1 \in 1 .. n /\ (i - 1) + 1 = i
    BY <1>1, <1>2
  <2> QED
    BY <1>1, <2>1
<1>3. Members(r) = Members(s) \union {t}
  <2>1. ASSUME NEW i \in DOMAIN s PROVE s[i] \in Members(r)
    <3>1. i \in 1 .. n /\ i + 1 \in DOMAIN r
      BY <1>1
    <3> QED
      BY <1>1, <3>1 DEF Members
  <2>2. t \in Members(r)
    BY <1>1 DEF Members
  <2>3. ASSUME NEW i \in DOMAIN r PROVE r[i] \in Members(s) \union {t}
    BY <1>1, <1>2 DEF Members
  <2> QED
    BY <2>1, <2>2, <2>3 DEF Members
<1>4. ASSUME Distinct(s), t \notin Members(s) PROVE Distinct(r)
  <2>1. \A i \in 1 .. n : s[i] # t
    BY <1>1, <1>4 DEF Members
  <2>2. ASSUME NEW i \in 1 .. n + 1, NEW j \in 1 .. n + 1, r[i] = r[j]
        PROVE  i = j
    <3>1. CASE i = 1 \/ j = 1
      BY <1>1, <1>2, <2>1, <2>2, <3>1
    <3>2. CASE i # 1 /\ j # 1
      <4>1. i - 1 \in DOMAIN s /\ j - 1 \in DOMAIN s /\ s[i - 1] = s[j - 1]
        BY <1>1, <1>2, <2>2, <3>2
      <4>2. i - 1 = j - 1
        BY <1>4, <4>1 DEF Distinct
      <4> QED
        BY <4>2
    <3> QED
      BY <3>1, <3>2
  <2> QED
    BY <1>1, <2>2 DEF Distinct
<1> QED
  BY <1>1, <1>3, <1>4 DEF r, n

(* A list has as many nodes as it is long.                                  *)
LEMMA DistinctCardinality ==
  ASSUME NEW S, NEW s \in Seq(S), Distinct(s)
  PROVE  IsFiniteSet(Members(s)) /\ Cardinality(Members(s)) = Len(s)
<1> DEFINE n == Len(s)
<1>1. /\ n \in Nat /\ DOMAIN s = 1 .. n
      /\ s \in [1 .. n -> Members(s)]
      /\ \A i, j \in 1 .. n : s[i] = s[j] => i = j
      /\ \A x \in Members(s) : \E i \in 1 .. n : s[i] = x
  BY DEF Distinct, Members
<1> HIDE DEF n
<1>2. s \in Bijection(1 .. n, Members(s))
  BY <1>1, Fun_IsBij
<1>3. ExistsBijection(1 .. n, Members(s))
  BY <1>2 DEF ExistsBijection
<1>4. Cardinality(Members(s)) = n
  BY <1>1, <1>3, FS_CountingElements
<1>5. IsFiniteSet(Members(s))
  BY <1>1, <1>3, FS_NatBijection
<1> QED
  BY <1>4, <1>5 DEF n

(* Lists without a common node have the nodes of both.                      *)
LEMMA DisjointCardinality ==
  ASSUME NEW S, IsFiniteSet(S), NEW T, IsFiniteSet(T), S \intersect T = {}
  PROVE  IsFiniteSet(S \union T) /\ Cardinality(S \union T) = Cardinality(S) + Cardinality(T)
<1>1. /\ IsFiniteSet(S \union T)
      /\ Cardinality(S \union T) = Cardinality(S) + Cardinality(T) - Cardinality(S \intersect T)
  BY FS_Union
<1>2. Cardinality(S \intersect T) = 0
  BY FS_EmptySet, Zenon
<1>3. Cardinality(S) \in Nat /\ Cardinality(T) \in Nat
  BY FS_CardinalityType
<1> QED
  BY <1>1, <1>2, <1>3
=============================================================================
