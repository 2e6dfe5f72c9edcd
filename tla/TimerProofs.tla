---------------------------- MODULE TimerProofs ----------------------------
(***************************************************************************)
(* Proofs about the hard timers, for every set of timers, every width of    *)
(* the tick and all the time-outs rt_timer_start accepts: the list stays in *)
(* the order of the time-outs across the wrap of the tick, so a time-out    *)
(* function is called at the very tick its timer was set to; timers of one  *)
(* tick keep the order they were started in; and the flag of a timer says   *)
(* whether it will fire.                                                    *)
(***************************************************************************)
EXTENDS Timer, IntrusiveListProofs

-----------------------------------------------------------------------------
(* The inductive invariant *)

\* A list in the order of w, none of it at Half or beyond.
Ordered(s, w) ==
  /\ \A i \in DOMAIN s : w[s[i]] < Half
  /\ \A i, j \in DOMAIN s : i < j => s[i] # s[j] /\ w[s[i]] <= w[s[j]]

\* The ticks every timer has left at the tick now, when to is timeout.
LeftsOf(to, now) == [t \in Timer |-> Minus(to[t], now)]

\* When the tick interrupt comes no timer of the list is due already.
NoneDue == phase = "idle" => \A i \in DOMAIN list : Left(list[i]) >= 1

\* Only while its time-out function runs is a timer in the local list of
\* rt_timer_check.
LocalInCallback ==
  IF phase = "callback" THEN running \in Timer
                        ELSE running = Unset /\ ~inLocal

IInv ==
  /\ TypeOK
  /\ ListSorted
  /\ NoneDue
  /\ LocalInCallback
  /\ DeletedUntouched

-----------------------------------------------------------------------------
(* The arithmetic of the tick *)

\* Twice the half range is less than the range, and durations are below the half.
LEMMA HalfBounds ==
  /\ TickValues \in Nat \ {0}
  /\ Half \in Nat /\ Half >= 2 /\ 2 * Half <= TickValues - 1
  /\ \A d \in Duration : d \in Nat /\ 1 <= d /\ d < Half
<1>1. TickValues \in Nat \ {0} /\ Half \in Nat /\ 2 * Half <= TickValues - 1
  BY TimerConstants, SMTT(30) DEF Half
<1>2. \A d \in Duration : d \in Nat /\ 1 <= d /\ d < Half
  BY <1>1, TimerConstants
<1>3. Half >= 2
  <2>1. PICK d \in Duration : TRUE
    BY TimerConstants
  <2> QED
    BY <1>1, <1>2, <2>1
<1> QED
  BY <1>1, <1>2, <1>3

(* A difference of ticks is that of the numbers, or one turn more.          *)
LEMMA MinusValue ==
  ASSUME NEW a \in Tick, NEW b \in Tick
  PROVE  /\ Minus(a, b) = IF b <= a THEN a - b ELSE a - b + TickValues
         /\ Minus(a, b) \in Tick
<1> DEFINE T == TickValues
<1>1. T \in Nat \ {0} /\ a \in 0 .. T - 1 /\ b \in 0 .. T - 1
  BY TimerConstants DEF Tick
<1>2. \A x \in 0 .. T - 1 : x % T = x
  BY <1>1, SMTT(30)
<1>3. \A x \in Int : -T <= x /\ x < 0 => x % T = x + T
  BY <1>1, SMTT(30)
<1> HIDE DEF T
<1>4. CASE b <= a
  <2>1. a - b \in 0 .. T - 1
    BY <1>1, <1>4
  <2> QED
    BY <1>2, <1>4, <2>1 DEF Minus, Tick, T
<1>5. CASE ~(b <= a)
  <2>1. a - b \in Int /\ -T <= a - b /\ a - b < 0 /\ a - b + T \in 0 .. T - 1
    BY <1>1, <1>5
  <2> QED
    BY <1>3, <1>5, <2>1 DEF Minus, Tick, T
<1> QED
  BY <1>4, <1>5

(* A sum of ticks is that of the numbers, or one turn less.                 *)
LEMMA PlusValue ==
  ASSUME NEW a \in Tick, NEW d \in 0 .. TickValues - 1
  PROVE  /\ (a + d) % TickValues =
              IF a + d < TickValues THEN a + d ELSE a + d - TickValues
         /\ (a + d) % TickValues \in Tick
<1> DEFINE T == TickValues
<1>1. T \in Nat \ {0} /\ a \in 0 .. T - 1 /\ d \in 0 .. T - 1
  BY TimerConstants DEF Tick
<1>2. \A x \in 0 .. T - 1 : x % T = x
  BY <1>1, SMTT(30)
<1>3. \A x \in Int : T <= x /\ x < T + T => x % T = x - T
  BY <1>1, SMTT(30)
<1> HIDE DEF T
<1>4. CASE a + d < T
  <2>1. a + d \in 0 .. T - 1
    BY <1>1, <1>4
  <2> QED
    BY <1>2, <1>4, <2>1 DEF Tick, T
<1>5. CASE ~(a + d < T)
  <2>1. a + d \in Int /\ T <= a + d /\ a + d < T + T /\ a + d - T \in 0 .. T - 1
    BY <1>1, <1>5
  <2>2. (a + d) % T = a + d - T
    BY <1>1, <1>3, <2>1
  <2> QED
    BY <1>5, <2>1, <2>2 DEF Tick, T
<1> QED
  BY <1>4, <1>5

(* A timer set d ticks ahead has d ticks left.                              *)
LEMMA EndLeft ==
  ASSUME tick \in Tick, NEW d \in Duration
  PROVE  LET end == (tick + d) % TickValues
         IN  end \in Tick /\ Minus(end, tick) = d
<1>1. d \in 0 .. TickValues - 1 /\ TickValues \in Nat
  BY HalfBounds
<1> DEFINE end == (tick + d) % TickValues
<1>2. /\ end = IF tick + d < TickValues THEN tick + d ELSE tick + d - TickValues
      /\ end \in Tick
  BY <1>1, PlusValue
<1> HIDE DEF end
<1>3. Minus(end, tick) = IF tick <= end THEN end - tick ELSE end - tick + TickValues
  BY <1>2, MinusValue
<1>4. Minus(end, tick) = d
  BY <1>1, <1>2, <1>3 DEF Tick
<1> QED
  BY <1>2, <1>4 DEF end

(* A tick later there is one less.                                          *)
LEMMA TickLeft ==
  ASSUME tick \in Tick, NEW a \in Tick, Minus(a, tick) >= 1
  PROVE  LET next == (tick + 1) % TickValues
         IN  next \in Tick /\ Minus(a, next) = Minus(a, tick) - 1
<1>1. 1 \in 0 .. TickValues - 1 /\ TickValues \in Nat
  BY HalfBounds
<1> DEFINE next == (tick + 1) % TickValues
<1>2. /\ next = IF tick + 1 < TickValues THEN tick + 1 ELSE tick + 1 - TickValues
      /\ next \in Tick
  BY <1>1, PlusValue
<1> HIDE DEF next
<1>3. /\ Minus(a, tick) = IF tick <= a THEN a - tick ELSE a - tick + TickValues
      /\ Minus(a, next) = IF next <= a THEN a - next ELSE a - next + TickValues
  BY <1>2, MinusValue
<1>4. Minus(a, next) = Minus(a, tick) - 1
  BY <1>1, <1>2, <1>3 DEF Tick
<1> QED
  BY <1>2, <1>4 DEF next

(* While a timer is less than Half ahead, it is due when it has no ticks    *)
(* left, not before.                                                        *)
LEMMA DueLeft ==
  ASSUME NEW a \in Tick, NEW now \in Tick, Minus(a, now) < Half
  PROVE  /\ Minus(now, a) < Half <=> a = now
         /\ a = now <=> Minus(a, now) = 0
<1>1. /\ Minus(a, now) = IF now <= a THEN a - now ELSE a - now + TickValues
      /\ Minus(now, a) = IF a <= now THEN now - a ELSE now - a + TickValues
  BY MinusValue
<1> QED
  BY <1>1, HalfBounds DEF Tick

(* The comparison the search in rt_timer_start makes is that of the ticks   *)
(* left.                                                                    *)
LEMMA PassedLeft ==
  ASSUME NEW now \in Tick, NEW a \in Tick, NEW b \in Tick,
         Minus(a, now) < Half, Minus(b, now) < Half
  PROVE  /\ (Minus(a, b) = 0 \/ Minus(a, b) >= Half) <=> Minus(a, now) <= Minus(b, now)
         /\ a = b <=> Minus(a, now) = Minus(b, now)
<1>1. /\ Minus(a, now) = IF now <= a THEN a - now ELSE a - now + TickValues
      /\ Minus(b, now) = IF now <= b THEN b - now ELSE b - now + TickValues
      /\ Minus(a, b) = IF b <= a THEN a - b ELSE a - b + TickValues
  BY MinusValue
<1> QED
  BY <1>1, HalfBounds DEF Tick

-----------------------------------------------------------------------------
(* Lists in order *)

(* What ListSorted says of a list. *)
LEMMA SortedIsOrdered ==
  ASSUME NEW s \in Seq(Timer), NEW to \in [Timer -> Tick], NEW now \in Tick
  PROVE  /\ LeftsOf(to, now) \in [Timer -> Tick]
         /\ LeftsOf(to, now) \in [Timer -> Nat]
         /\ Ordered(s, LeftsOf(to, now)) <=>
              /\ \A i \in DOMAIN s : Minus(to[s[i]], now) < Half
              /\ \A i, j \in DOMAIN s : i < j =>
                   /\ s[i] # s[j]
                   /\ Minus(to[s[i]], now) <= Minus(to[s[j]], now)
<1>1. \A t \in Timer : Minus(to[t], now) \in Tick
  BY MinusValue
<1>2. Tick \subseteq Nat
  BY TimerConstants DEF Tick
<1>3. \A i \in DOMAIN s : s[i] \in Timer
  BY ElementOfSeq, LenProperties
<1>4. \A i \in DOMAIN s : LeftsOf(to, now)[s[i]] = Minus(to[s[i]], now)
  BY <1>3 DEF LeftsOf
<1> QED
  BY <1>1, <1>2, <1>4 DEF Ordered, LeftsOf

\* A timer in order is in the list once.
LEMMA OrderedDistinct ==
  ASSUME NEW s \in Seq(Timer), NEW w, Ordered(s, w) PROVE Distinct(s)
<1>1. DOMAIN s \subseteq Int
  BY LenProperties
<1> QED
  BY <1>1 DEF Ordered, Distinct

(* A list without one of its nodes is still in order. *)
LEMMA UnlinkOrdered ==
  ASSUME NEW s \in Seq(Timer), NEW w, Ordered(s, w), NEW t
  PROVE  Ordered(Unlink(s, t), w)
<1> DEFINE r == Unlink(s, t)
<1>1. /\ r \in Seq(Timer)
      /\ Members(r) = Members(s) \ {t}
      /\ \A i, j \in DOMAIN r : i < j =>
           \E k, m \in DOMAIN s : k < m /\ s[k] = r[i] /\ s[m] = r[j]
  BY OrderedDistinct, UnlinkProperties
<1> HIDE DEF r
<1>2. \A i \in DOMAIN r : \E k \in DOMAIN s : s[k] = r[i]
  BY <1>1 DEF Members
<1>3. \A i \in DOMAIN r : w[r[i]] < Half
  BY <1>2 DEF Ordered
<1>4. \A i, j \in DOMAIN r : i < j => r[i] # r[j] /\ w[r[i]] <= w[r[j]]
  BY <1>1 DEF Ordered
<1> QED
  BY <1>3, <1>4 DEF Ordered, r

\* Taking off the first timer keeps the order.
LEMMA TailOrdered ==
  ASSUME NEW s \in Seq(Timer), NEW w, Ordered(s, w), s # <<>>
  PROVE  Ordered(Tail(s), w)
<1>1. /\ \A i \in DOMAIN Tail(s) : i + 1 \in DOMAIN s /\ Tail(s)[i] = s[i + 1]
      /\ DOMAIN Tail(s) \subseteq Int
  BY OrderedDistinct, TailMembers
<1>2. \A i, j \in DOMAIN Tail(s) : i < j => i + 1 < j + 1
  BY <1>1
<1> QED
  BY <1>1, <1>2 DEF Ordered

(* Only what the nodes of a list have counts for its order. *)
LEMMA SameOrdered ==
  ASSUME NEW s, NEW w, Ordered(s, w), NEW x,
         \A t \in Members(s) : x[t] = w[t]
  PROVE  Ordered(s, x)
<1>1. \A i \in DOMAIN s : x[s[i]] = w[s[i]]
  BY DEF Members
<1> QED
  BY <1>1 DEF Ordered

(* A node that goes behind those that come no later, and before the others, *)
(* leaves the list in order.                                                *)
LEMMA LinkOrdered ==
  ASSUME NEW s \in Seq(Timer), NEW w \in [Timer -> Nat], Ordered(s, w),
         NEW t \in Timer, t \notin Members(s), w[t] < Half,
         NEW k \in 0 .. Len(s),
         \A i \in 1 .. k : w[s[i]] <= w[t],
         k < Len(s) => w[t] < w[s[k + 1]]
  PROVE  Ordered(LinkBehind(s, k, t), w)
<1> DEFINE r == LinkBehind(s, k, t)
           n == Len(s)
<1>1. /\ n \in Nat /\ DOMAIN s = 1 .. n /\ k \in Nat /\ k <= n
      /\ DOMAIN r = 1 .. n + 1
      /\ \A i \in 1 .. n + 1 :
           r[i] = IF i <= k THEN s[i] ELSE IF i = k + 1 THEN t ELSE s[i - 1]
  <2>1. n \in Nat /\ DOMAIN s = 1 .. n /\ k \in Nat /\ k <= n
    BY LenProperties
  <2>2. /\ r \in Seq(Timer) /\ Len(r) = n + 1
        /\ \A i \in 1 .. n + 1 :
             r[i] = IF i <= k THEN s[i] ELSE IF i = k + 1 THEN t ELSE s[i - 1]
    BY LinkBehindProperties
  <2> HIDE DEF r
  <2>3. DOMAIN r = 1 .. n + 1
    BY <2>2, LenProperties
  <2> QED
    BY <2>1, <2>2, <2>3
<1>2. /\ \A i \in 1 .. n : s[i] \in Timer /\ s[i] # t /\ w[s[i]] < Half
      /\ \A i \in 1 .. n : w[s[i]] \in Nat
      /\ w[t] \in Nat
      /\ \A i, j \in 1 .. n : i < j => s[i] # s[j] /\ w[s[i]] <= w[s[j]]
  <2>1. \A i \in 1 .. n : s[i] \in Timer
    BY ElementOfSeq
  <2> QED
    BY <1>1, <2>1 DEF Members, Ordered
<1>3. \A i \in k + 1 .. n : w[t] < w[s[i]]
  <2> TAKE i \in k + 1 .. n
  <2>1. k < n /\ w[t] < w[s[k + 1]] /\ k + 1 \in 1 .. n /\ i \in 1 .. n
    BY <1>1
  <2>2. i = k + 1 \/ k + 1 < i
    BY <1>1
  <2> QED
    BY <1>2, <2>1, <2>2
<1> HIDE DEF r, n
<1>4. ASSUME NEW i \in DOMAIN r PROVE w[r[i]] < Half
  <2>1. CASE i <= k
    BY <1>1, <1>2, <2>1
  <2>2. CASE i = k + 1
    BY <1>1, <1>2, <2>2
  <2>3. CASE k + 1 < i
    <3>1. i - 1 \in 1 .. n /\ r[i] = s[i - 1]
      BY <1>1, <2>3
    <3> QED
      BY <1>2, <3>1
  <2> QED
    BY <1>1, <2>1, <2>2, <2>3
<1>5. ASSUME NEW i \in DOMAIN r, NEW j \in DOMAIN r, i < j
      PROVE  r[i] # r[j] /\ w[r[i]] <= w[r[j]]
  <2>0. ASSUME NEW m \in 1 .. n + 1
        PROVE  /\ m <= k => m \in 1 .. k /\ m \in 1 .. n /\ r[m] = s[m]
               /\ m = k + 1 => r[m] = t
               /\ k + 1 < m => /\ m - 1 \in k + 1 .. n
                              /\ m - 1 \in 1 .. n
                              /\ r[m] = s[m - 1]
    <3>1. r[m] = IF m <= k THEN s[m] ELSE IF m = k + 1 THEN t ELSE s[m - 1]
      BY <1>1
    <3>2. k + 1 < m => m - 1 \in k + 1 .. n /\ m - 1 \in 1 .. n
      BY <1>1
    <3> QED
      BY <1>1, <3>1, <3>2, SMTT(30)
  <2>1. /\ i <= k => i \in 1 .. k /\ i \in 1 .. n /\ r[i] = s[i]
        /\ i = k + 1 => r[i] = t
        /\ k + 1 < i => i - 1 \in k + 1 .. n /\ i - 1 \in 1 .. n /\ r[i] = s[i - 1]
    BY <1>1, <2>0
  <2>2. /\ j <= k => j \in 1 .. k /\ j \in 1 .. n /\ r[j] = s[j]
        /\ j = k + 1 => r[j] = t
        /\ k + 1 < j => j - 1 \in k + 1 .. n /\ j - 1 \in 1 .. n /\ r[j] = s[j - 1]
    BY <1>1, <2>0
  <2>3. /\ i <= k \/ i = k + 1 \/ k + 1 < i
        /\ j <= k \/ j = k + 1 \/ k + 1 < j
    BY <1>1
  <2>4. CASE i <= k /\ j <= k
    BY <1>2, <1>5, <2>1, <2>2, <2>4
  <2>5. CASE i <= k /\ j = k + 1
    BY <1>2, <2>1, <2>2, <2>5
  <2>6. CASE i <= k /\ k + 1 < j
    <3>1. i < j - 1
      BY <1>1, <2>6
    <3> QED
      BY <1>2, <2>1, <2>2, <2>6, <3>1
  <2>7. CASE i = k + 1 /\ k + 1 < j
    BY <1>2, <1>3, <2>1, <2>2, <2>7
  <2>8. CASE k + 1 < i /\ k + 1 < j
    <3>1. i - 1 < j - 1
      BY <1>1, <1>5
    <3> QED
      BY <1>2, <2>1, <2>2, <2>8, <3>1
  <2>9. \/ i <= k /\ j <= k
        \/ i <= k /\ j = k + 1
        \/ i <= k /\ k + 1 < j
        \/ i = k + 1 /\ k + 1 < j
        \/ k + 1 < i /\ k + 1 < j
    BY <1>1, <1>5, <2>3
  <2> QED
    BY <2>4, <2>5, <2>6, <2>7, <2>8, <2>9
<1> QED
  BY <1>4, <1>5 DEF Ordered, r

(* rt_timer_start finds the place behind the timers that end no later, and  *)
(* before the first that ends after.                                        *)
LEMMA PositionInOrder ==
  ASSUME TypeOK, NEW s \in Seq(Timer), NEW end \in Tick,
         Ordered(s, LeftsOf(timeout, tick)), Minus(end, tick) < Half
  PROVE  LET w == LeftsOf(timeout, tick)
             d == Minus(end, tick)
         IN  \E k \in 0 .. Len(s) : /\ Position(s, end) = k
                                    /\ \A i \in 1 .. k : w[s[i]] <= d
                                    /\ k < Len(s) => d < w[s[k + 1]]
<1> DEFINE w == LeftsOf(timeout, tick)
           d == Minus(end, tick)
           n == Len(s)
           B == {i \in 1 .. n : w[s[i]] <= d}
<1>1. tick \in Tick /\ timeout \in [Timer -> Tick]
  BY DEF TypeOK
<1>2. /\ n \in Nat /\ DOMAIN s = 1 .. n
      /\ \A i \in 1 .. n : s[i] \in Timer
  BY LenProperties, ElementOfSeq
<1>3. \A i \in 1 .. n : w[s[i]] = Minus(timeout[s[i]], tick) /\ w[s[i]] \in Nat
  BY <1>1, <1>2, SortedIsOrdered, SMTT(30) DEF LeftsOf
<1>4. d \in Nat
  <2>1. d \in Tick
    BY <1>1, MinusValue
  <2> QED
    BY <2>1, TimerConstants DEF Tick
<1>5. ASSUME NEW j \in 1 .. n
      PROVE  (Minus(timeout[s[j]], end) = 0 \/ Minus(timeout[s[j]], end) >= Half)
               <=> j \in B
  <2>1. Minus(timeout[s[j]], tick) < Half
    BY <1>2, <1>3 DEF Ordered
  <2> QED
    BY <1>1, <1>2, <1>3, <2>1, PassedLeft
<1> HIDE DEF B, w, d
<1>6. Position(s, end) = Cardinality({i \in 1 .. n : \A j \in 1 .. i : j \in B})
  <2>1. {i \in DOMAIN s : \A j \in 1 .. i :
           Minus(timeout[s[j]], end) = 0 \/ Minus(timeout[s[j]], end) >= Half}
          = {i \in 1 .. n : \A j \in 1 .. i : j \in B}
    BY <1>2, <1>5
  <2> QED
    BY <2>1 DEF Position
<1>7. PICK k \in 0 .. n : /\ Position(s, end) = k
                          /\ \A j \in 1 .. k : j \in B
                          /\ k < n => k + 1 \notin B
  BY <1>2, <1>6, PrefixCount
<1>8. k < n => k + 1 \in 1 .. n /\ d < w[s[k + 1]]
  BY <1>2, <1>3, <1>4, <1>7 DEF B
<1> QED
  BY <1>7, <1>8 DEF B, w, d

\* What EqualInOrder asks of one step.
EqualKept ==
  \A i, j \in DOMAIN list' :
    /\ i < j
    /\ timeout'[list'[i]] = timeout'[list'[j]]
    /\ list'[j] \in Listed /\ timeout'[list'[j]] = timeout[list'[j]]
    => /\ list'[i] \in Listed
       /\ timeout'[list'[i]] = timeout[list'[i]]

(* rt_timer_start keeps the list in order and goes behind the timers of the *)
(* same end.                                                                *)
LEMMA StartedKeeps ==
  ASSUME TypeOK, ListSorted, NEW t \in Timer, Started(t), tick' = tick
  PROVE  /\ list' \in Seq(Timer)
         /\ timeout' \in [Timer -> Tick]
         /\ active' \in [Timer -> BOOLEAN]
         /\ Members(list') = Listed \union {t}
         /\ ListSorted'
         /\ \A v \in Timer : Left(v)' = IF v = t THEN init[t] ELSE Left(v)
         /\ EqualKept
<1> DEFINE s == Unlink(list, t)
           w == LeftsOf(timeout, tick)
           x == LeftsOf(timeout', tick)
<1>1. /\ tick \in Tick /\ timeout \in [Timer -> Tick] /\ list \in Seq(Timer)
      /\ init[t] \in Duration /\ active \in [Timer -> BOOLEAN]
  BY DEF TypeOK
<1>2. End(t) \in Tick /\ Minus(End(t), tick) = init[t] /\ init[t] < Half
  BY <1>1, EndLeft, HalfBounds DEF End
<1>3. /\ timeout' = [timeout EXCEPT ![t] = End(t)]
      /\ timeout' \in [Timer -> Tick]
      /\ active' \in [Timer -> BOOLEAN]
  BY <1>1, <1>2 DEF Started
<1>4. \A v \in Timer : Left(v)' = IF v = t THEN init[t] ELSE Left(v)
  BY <1>1, <1>2, <1>3 DEF Left
<1>5. Ordered(list, w) /\ Distinct(list)
  BY <1>1, SortedIsOrdered, OrderedDistinct DEF ListSorted, Left
<1>6. /\ s \in Seq(Timer)
      /\ Members(s) = Listed \ {t}
      /\ Ordered(s, w)
  BY <1>1, <1>5, UnlinkProperties, UnlinkOrdered DEF Listed
<1>7. /\ x \in [Timer -> Nat]
      /\ x[t] = init[t]
      /\ \A v \in Timer : v # t => x[v] = w[v]
  <2>1. x \in [Timer -> Nat]
    BY <1>1, <1>3, SortedIsOrdered
  <2> QED
    BY <2>1, <1>1, <1>2, <1>3 DEF LeftsOf
<1> HIDE DEF w, x, s
<1>8. PICK k \in 0 .. Len(s) : /\ Position(s, End(t)) = k
                               /\ \A i \in 1 .. k : w[s[i]] <= init[t]
                               /\ k < Len(s) => init[t] < w[s[k + 1]]
  BY <1>2, <1>6, PositionInOrder DEF w
<1>9. list' = LinkBehind(s, k, t)
  BY <1>8 DEF Started, s
<1>10. /\ \A v \in Members(s) : v \in Timer /\ v # t /\ x[v] = w[v]
       /\ \A i \in 1 .. Len(s) : s[i] \in Members(s)
       /\ Len(s) \in Nat /\ DOMAIN s = 1 .. Len(s)
  <2>1. Len(s) \in Nat /\ DOMAIN s = 1 .. Len(s)
    BY <1>6, LenProperties
  <2>2. \A i \in 1 .. Len(s) : s[i] \in Timer
    BY <1>6, ElementOfSeq
  <2> QED
    BY <1>6, <1>7, <2>1, <2>2 DEF Members
<1>11. Ordered(s, x)
  BY <1>6, <1>10, SameOrdered
<1>12. /\ list' \in Seq(Timer)
       /\ Members(list') = Listed \union {t}
       /\ Ordered(list', x)
  <2>1. list' \in Seq(Timer) /\ Members(list') = Members(s) \union {t}
    <3>1. s \in Seq(Timer) /\ k \in 0 .. Len(s)
      BY <1>6
    <3>2. LinkBehind(s, k, t) \in Seq(Timer)
      BY <3>1, LinkBehindProperties
    <3>3. Members(LinkBehind(s, k, t)) = Members(s) \union {t}
      BY <3>1, LinkBehindMembers
    <3> QED
      BY <1>9, <3>2, <3>3
  <2>2. /\ \A i \in 1 .. k : x[s[i]] <= x[t]
        /\ k < Len(s) => x[t] < x[s[k + 1]]
    <3>1. \A i \in 1 .. k : i \in 1 .. Len(s)
      BY <1>10
    <3>2. k < Len(s) => k + 1 \in 1 .. Len(s)
      BY <1>10
    <3> QED
      BY <1>7, <1>8, <1>10, <3>1, <3>2
  <2>3. t \notin Members(s) /\ x[t] < Half
    BY <1>2, <1>6, <1>7
  <2>4. Ordered(list', x)
    BY <1>6, <1>7, <1>9, <1>11, <2>2, <2>3, LinkOrdered
  <2> QED
    BY <1>6, <2>1, <2>4
<1>13. ListSorted'
  <2>1. /\ \A i \in DOMAIN list' : Minus(timeout'[list'[i]], tick) < Half
        /\ \A i, j \in DOMAIN list' : i < j =>
             /\ list'[i] # list'[j]
             /\ Minus(timeout'[list'[i]], tick) <= Minus(timeout'[list'[j]], tick)
    <3>1. /\ list' \in Seq(Timer)
          /\ timeout' \in [Timer -> Tick]
          /\ tick \in Tick
          /\ Ordered(list', LeftsOf(timeout', tick))
      BY <1>1, <1>3, <1>12 DEF x
    <3> QED
      BY <3>1, SortedIsOrdered, ZenonT(30)
  <2> QED
    BY <2>1 DEF ListSorted, Left
<1>14. EqualKept
  <2>1. SUFFICES ASSUME NEW i \in DOMAIN list', NEW j \in DOMAIN list', i < j,
                        timeout'[list'[i]] = timeout'[list'[j]]
                 PROVE  list'[i] # t
    BY <1>3, <1>12 DEF EqualKept, Members
  <2>2. SUFFICES ASSUME list'[i] = t PROVE FALSE
    OBVIOUS
  <2>3. /\ DOMAIN list' = 1 .. Len(s) + 1
        /\ \A m \in 1 .. Len(s) + 1 :
             list'[m] = IF m <= k THEN s[m] ELSE IF m = k + 1 THEN t ELSE s[m - 1]
    <3> DEFINE r == LinkBehind(s, k, t)
    <3>1. r \in Seq(Timer) /\ Len(r) = Len(s) + 1
      BY <1>6, LinkBehindProperties
    <3>2. \A m \in 1 .. Len(s) + 1 :
            r[m] = IF m <= k THEN s[m] ELSE IF m = k + 1 THEN t ELSE s[m - 1]
      BY <1>6, LinkBehindProperties
    <3> HIDE DEF r
    <3>3. DOMAIN r = 1 .. Len(s) + 1
      BY <3>1, LenProperties
    <3>4. list' = r
      BY <1>9 DEF r
    <3> QED
      BY <3>2, <3>3, <3>4
  <2>4. i = k + 1
    <3>1. i <= k => i \in 1 .. Len(s) /\ list'[i] = s[i]
      BY <1>10, <2>3
    <3>2. k + 1 < i => i - 1 \in 1 .. Len(s) /\ list'[i] = s[i - 1]
      BY <1>10, <2>3
    <3> QED
      BY <1>10, <2>2, <2>3, <3>1, <3>2
  <2>5. /\ k < Len(s) /\ k + 1 \in 1 .. Len(s)
        /\ j - 1 \in k + 1 .. Len(s) /\ list'[j] = s[j - 1]
    BY <1>10, <2>1, <2>3, <2>4
  <2>6. x[t] < x[s[k + 1]] /\ x[s[k + 1]] <= x[s[j - 1]]
    <3>1. init[t] < w[s[k + 1]] /\ s[k + 1] \in Members(s)
      BY <1>8, <1>10, <2>5
    <3>2. j - 1 \in DOMAIN s /\ (k + 1 = j - 1 \/ k + 1 < j - 1)
      BY <1>10, <2>5
    <3>3. x[s[k + 1]] \in Nat
      BY <1>7, <1>10, <3>1
    <3> QED
      BY <1>7, <1>10, <1>11, <2>5, <3>1, <3>2, <3>3 DEF Ordered
  <2>7. timeout'[t] = timeout'[s[j - 1]] /\ s[j - 1] \in Timer
    BY <1>10, <2>1, <2>2, <2>5
  <2>8. x[t] = x[s[j - 1]]
    BY <2>7 DEF x, LeftsOf
  <2>9. x[t] \in Nat /\ x[s[k + 1]] \in Nat /\ x[s[j - 1]] \in Nat
    BY <1>7, <1>10, <2>5, <2>7
  <2> QED
    BY <2>6, <2>8, <2>9
<1> QED
  BY <1>3, <1>4, <1>12, <1>13, <1>14

(* A timer that leaves the list leaves the others in order. *)
LEMMA LeftBehind ==
  ASSUME TypeOK, NEW t \in Timer,
         list' \in Seq(Timer), Members(list') = Listed \ {t},
         Ordered(list', LeftsOf(timeout, tick)),
         timeout' = [timeout EXCEPT ![t] = 0], tick' = tick
  PROVE  /\ timeout' \in [Timer -> Tick]
         /\ ListSorted'
         /\ \A v \in Timer : v # t => Left(v)' = Left(v)
         /\ EqualKept
<1> DEFINE w == LeftsOf(timeout, tick)
           x == LeftsOf(timeout', tick)
<1>1. tick \in Tick /\ timeout \in [Timer -> Tick] /\ 0 \in Tick
  BY TimerConstants DEF TypeOK, Tick
<1>2. /\ timeout' \in [Timer -> Tick]
      /\ \A v \in Timer : v # t => timeout'[v] = timeout[v]
  BY <1>1
<1>3. \A v \in Timer : v # t => Left(v)' = Left(v)
  BY <1>2 DEF Left
<1>4. \A i \in DOMAIN list' : list'[i] \in Listed /\ list'[i] # t /\ list'[i] \in Timer
  BY ElementOfSeq, LenProperties DEF Members
<1>5. \A v \in Members(list') : x[v] = w[v]
  BY <1>2, <1>4 DEF Members, LeftsOf
<1> HIDE DEF x
<1>6. Ordered(list', x)
  BY <1>5, SameOrdered
<1>7. ListSorted'
  <2>1. /\ \A i \in DOMAIN list' : Minus(timeout'[list'[i]], tick) < Half
        /\ \A i, j \in DOMAIN list' : i < j =>
             /\ list'[i] # list'[j]
             /\ Minus(timeout'[list'[i]], tick) <= Minus(timeout'[list'[j]], tick)
    <3>1. /\ list' \in Seq(Timer)
          /\ timeout' \in [Timer -> Tick]
          /\ tick \in Tick
          /\ Ordered(list', LeftsOf(timeout', tick))
      BY <1>1, <1>2, <1>6 DEF x
    <3> QED
      BY <3>1, SortedIsOrdered, ZenonT(30)
  <2> QED
    BY <2>1 DEF ListSorted, Left
<1>8. EqualKept
  BY <1>2, <1>4 DEF EqualKept
<1> QED
  BY <1>2, <1>3, <1>7, <1>8

\* The list of the module is in order in this sense.
LEMMA ListOrdered ==
  ASSUME TypeOK, ListSorted
  PROVE  /\ Ordered(list, LeftsOf(timeout, tick))
         /\ Distinct(list)
         /\ \A i \in DOMAIN list : list[i] \in Timer /\ list[i] \in Listed
<1>1. list \in Seq(Timer) /\ timeout \in [Timer -> Tick] /\ tick \in Tick
  BY DEF TypeOK
<1>2. Ordered(list, LeftsOf(timeout, tick))
  BY <1>1, SortedIsOrdered DEF ListSorted, Left
<1>3. Distinct(list)
  BY <1>1, <1>2, OrderedDistinct
<1>4. \A i \in DOMAIN list : list[i] \in Timer /\ list[i] \in Listed
  BY <1>1, ElementOfSeq, LenProperties DEF Listed, Members
<1> QED
  BY <1>2, <1>3, <1>4

\* _rt_timer_remove keeps the list.
LEMMA RemovedKeeps ==
  ASSUME TypeOK, ListSorted, NEW t \in Timer, Removed(t), tick' = tick
  PROVE  /\ list' \in Seq(Timer)
         /\ timeout' \in [Timer -> Tick]
         /\ active' \in [Timer -> BOOLEAN]
         /\ Members(list') = Listed \ {t}
         /\ ListSorted'
         /\ \A v \in Timer : v # t => Left(v)' = Left(v)
         /\ EqualKept
<1>1. list \in Seq(Timer) /\ active \in [Timer -> BOOLEAN]
  BY DEF TypeOK
<1>2. /\ list' = Unlink(list, t)
      /\ timeout' = [timeout EXCEPT ![t] = 0]
      /\ active' = [active EXCEPT ![t] = FALSE]
  BY DEF Removed
<1>3. /\ Unlink(list, t) \in Seq(Timer)
      /\ Members(Unlink(list, t)) = Listed \ {t}
      /\ Ordered(Unlink(list, t), LeftsOf(timeout, tick))
  BY <1>1, ListOrdered, UnlinkProperties, UnlinkOrdered DEF Listed
<1>4. /\ list' \in Seq(Timer)
      /\ Members(list') = Listed \ {t}
      /\ Ordered(list', LeftsOf(timeout, tick))
  BY <1>2, <1>3
<1>5. active' \in [Timer -> BOOLEAN]
  BY <1>1, <1>2
<1> QED
  BY <1>2, <1>4, <1>5, LeftBehind

(* The first timer of the list: due when it has no ticks left. *)
LEMMA HeadDue ==
  ASSUME TypeOK, ListSorted, list # <<>>
  PROVE  /\ Head(list) \in Timer /\ Head(list) \in Listed
         /\ Due(Head(list)) <=> timeout[Head(list)] = tick
         /\ Due(Head(list)) <=> Left(Head(list)) = 0
         /\ \A i \in DOMAIN list : Left(Head(list)) <= Left(list[i])
         /\ \A i \in DOMAIN list : Left(list[i]) \in Nat
<1> DEFINE t == Head(list)
<1>1. /\ 1 \in DOMAIN list /\ t = list[1] /\ DOMAIN list = 1 .. Len(list)
      /\ Len(list) \in Nat
  <2>1. list \in Seq(Timer)
    BY DEF TypeOK
  <2> QED
    BY <2>1, HeadTailProperties, EmptySeq, LenProperties
<1>2. t \in Timer /\ t \in Listed /\ Left(t) < Half
  BY <1>1, ListOrdered DEF ListSorted
<1> HIDE DEF t
<1>3. tick \in Tick /\ timeout[t] \in Tick
  BY <1>2 DEF TypeOK
<1>4. /\ Due(t) <=> timeout[t] = tick
      /\ Due(t) <=> Left(t) = 0
  BY <1>2, <1>3, DueLeft DEF Due, Left
<1>5. \A i \in DOMAIN list : Left(list[i]) \in Nat
  <2>1. ASSUME NEW i \in DOMAIN list PROVE Left(list[i]) \in Tick
    BY ListOrdered, MinusValue DEF Left, TypeOK
  <2> QED
    BY <2>1, TimerConstants DEF Tick
<1>6. \A i \in DOMAIN list : Left(t) <= Left(list[i])
  <2> TAKE i \in DOMAIN list
  <2>1. CASE i = 1
    BY <1>1, <1>5, <2>1
  <2>2. CASE i # 1
    <3>1. 1 < i
      BY <1>1, <2>2
    <3> QED
      BY <1>1, <3>1 DEF ListSorted
  <2> QED
    BY <2>1, <2>2
<1> QED
  BY <1>2, <1>4, <1>5, <1>6 DEF t

-----------------------------------------------------------------------------
(* Every step keeps the invariant, and the order of equal ends. *)

\* No timer is started at first.
LEMMA InitIInv == Init => IInv
<1> SUFFICES ASSUME Init PROVE IInv
  OBVIOUS
<1>1. TypeOK
  <2> DEFINE first == CHOOSE d \in Duration : TRUE
  <2>1. first \in Duration
    BY TimerConstants
  <2>2. 0 \in Tick /\ TickValues - 1 \in Tick
    BY TimerConstants DEF Tick
  <2>3. init = [t \in Timer |-> first]
    BY DEF Init
  <2> HIDE DEF first
  <2>4. init \in [Timer -> Duration]
    BY <2>1, <2>3
  <2>5. timeout \in [Timer -> Tick] /\ tick \in Tick
    BY <2>2 DEF Init
  <2>6. list \in Seq(Timer)
    BY DEF Init
  <2> QED
    BY <2>4, <2>5, <2>6 DEF Init, TypeOK
<1>2. ListSorted /\ NoneDue /\ LocalInCallback /\ DeletedUntouched
  BY DEF Init, ListSorted, NoneDue, LocalInCallback, DeletedUntouched, Listed, Members
<1> QED
  BY <1>1, <1>2 DEF IInv

\* A step that leaves the list and the tick as they are.
SameList ==
  /\ list' = list /\ timeout' = timeout /\ tick' = tick
  /\ phase' = phase \/ phase' = "check"

\* The list is as good as it was when nothing in it changes.
LEMMA SameListKeeps ==
  ASSUME IInv, SameList PROVE ListSorted' /\ NoneDue' /\ EqualKept
<1>1. ListSorted' /\ NoneDue'
  BY DEF IInv, SameList, ListSorted, NoneDue, Left
<1>2. EqualKept
  BY ListOrdered DEF IInv, SameList, EqualKept
<1> QED
  BY <1>1, <1>2

\* rt_timer_start.
LEMMA StartStep ==
  ASSUME IInv, NEW t \in Timer, Start(t) PROVE IInv' /\ EqualKept
<1>1. /\ exists[t] /\ Started(t)
      /\ inLocal' = (inLocal /\ t # running)
      /\ UNCHANGED <<tick, init, periodic, exists, phase, running>>
  BY DEF Start
<1>2. /\ list' \in Seq(Timer)
      /\ timeout' \in [Timer -> Tick]
      /\ active' \in [Timer -> BOOLEAN]
      /\ Members(list') = Listed \union {t}
      /\ ListSorted'
      /\ \A v \in Timer : Left(v)' = IF v = t THEN init[t] ELSE Left(v)
      /\ EqualKept
  BY <1>1, StartedKeeps DEF IInv
<1>3. TypeOK'
  BY <1>1, <1>2 DEF IInv, TypeOK
<1>4. NoneDue'
  <2>1. ASSUME phase = "idle", NEW v \in Members(list') PROVE Left(v)' >= 1
    <3>1. v \in Timer /\ init[t] >= 1
      BY <1>2, HalfBounds, ListOrdered DEF IInv, TypeOK, Listed, Members
    <3>2. v # t => Left(v) >= 1
      BY <1>2, <2>1 DEF IInv, NoneDue, Listed, Members
    <3> QED
      BY <1>2, <3>1, <3>2
  <2>2. \A i \in DOMAIN list' : list'[i] \in Members(list')
    BY DEF Members
  <2> QED
    BY <1>1, <2>1, <2>2 DEF NoneDue
<1>5. LocalInCallback'
  BY <1>1 DEF IInv, LocalInCallback
<1>6. DeletedUntouched'
  BY <1>1, <1>2 DEF IInv, DeletedUntouched, Listed
<1> QED
  BY <1>2, <1>3, <1>4, <1>5, <1>6 DEF IInv

(* rt_timer_stop, rt_timer_detach. *)
LEMMA RemoveStep ==
  ASSUME IInv, NEW t \in Timer, Stop(t) \/ Detach(t) PROVE IInv' /\ EqualKept
<1>1. /\ Removed(t)
      /\ inLocal' = (inLocal /\ t # running)
      /\ exists' = exists \/ exists' = [exists EXCEPT ![t] = FALSE]
      /\ UNCHANGED <<tick, init, periodic, phase, running>>
  BY DEF Stop, Detach, Removed
<1>2. /\ list' \in Seq(Timer)
      /\ timeout' \in [Timer -> Tick]
      /\ active' \in [Timer -> BOOLEAN]
      /\ Members(list') = Listed \ {t}
      /\ ListSorted'
      /\ \A v \in Timer : v # t => Left(v)' = Left(v)
      /\ EqualKept
  BY <1>1, RemovedKeeps DEF IInv
<1>3. TypeOK'
  BY <1>1, <1>2 DEF IInv, TypeOK
<1>4. NoneDue'
  <2>1. ASSUME phase = "idle", NEW v \in Members(list') PROVE Left(v)' >= 1
    <3>1. v \in Timer /\ v # t
      BY <1>2, ListOrdered DEF IInv, Listed, Members
    <3>2. Left(v) >= 1
      BY <1>2, <2>1 DEF IInv, NoneDue, Listed, Members
    <3> QED
      BY <1>2, <3>1, <3>2
  <2>2. \A i \in DOMAIN list' : list'[i] \in Members(list')
    BY DEF Members
  <2> QED
    BY <1>1, <2>1, <2>2 DEF NoneDue
<1>5. LocalInCallback'
  BY <1>1 DEF IInv, LocalInCallback
<1>6. DeletedUntouched'
  BY <1>1, <1>2 DEF IInv, TypeOK, DeletedUntouched, Listed
<1> QED
  BY <1>2, <1>3, <1>4, <1>5, <1>6 DEF IInv

(* rt_timer_init and rt_timer_control. *)
LEMMA ControlStep ==
  ASSUME IInv, NEW t \in Timer, NEW d \in Duration, NEW p \in BOOLEAN,
         Initialise(t, d, p) \/ SetTime(t, d) \/ SetPeriodic(t, p)
  PROVE  IInv' /\ EqualKept
<1>1. /\ init' = init \/ init' = [init EXCEPT ![t] = d]
      /\ periodic' = periodic \/ periodic' = [periodic EXCEPT ![t] = p]
      /\ exists' = exists \/ exists' = [exists EXCEPT ![t] = TRUE]
      /\ UNCHANGED <<tick, list, timeout, active, phase, running, inLocal>>
  BY DEF Initialise, SetTime, SetPeriodic
<1>2. ListSorted' /\ NoneDue' /\ EqualKept
  BY <1>1, SameListKeeps DEF SameList
<1>3. TypeOK'
  BY <1>1 DEF IInv, TypeOK
<1>4. LocalInCallback' /\ DeletedUntouched'
  BY <1>1 DEF IInv, TypeOK, LocalInCallback, DeletedUntouched, Listed
<1> QED
  BY <1>2, <1>3, <1>4 DEF IInv

(* The tick comes when no timer of the list is due already: each is one     *)
(* tick nearer afterwards.                                                  *)
LEMMA TickIncreaseStep ==
  ASSUME IInv, TickIncrease PROVE IInv' /\ EqualKept
<1>1. /\ phase = "idle" /\ phase' = "check"
      /\ tick' = (tick + 1) % TickValues
      /\ UNCHANGED <<list, timeout, init, active, periodic, exists, running,
                     inLocal>>
  BY DEF TickIncrease
<1>2. ASSUME NEW i \in DOMAIN list
      PROVE  Left(list[i])' = Left(list[i]) - 1 /\ Left(list[i]) \in Nat
  <2>1. list[i] \in Timer /\ Left(list[i]) >= 1
    BY <1>1, ListOrdered DEF IInv, NoneDue
  <2>2. tick \in Tick /\ timeout[list[i]] \in Tick
    BY <2>1 DEF IInv, TypeOK
  <2>3. Left(list[i]) \in Nat
    BY <2>1, HeadDue DEF IInv
  <2> QED
    BY <1>1, <2>1, <2>2, <2>3, TickLeft DEF Left
<1>3. ListSorted'
  <2>1. Half \in Nat
    BY HalfBounds
  <2>2. /\ \A i \in DOMAIN list : Left(list[i])' < Half
        /\ \A i, j \in DOMAIN list : i < j =>
             list[i] # list[j] /\ Left(list[i])' <= Left(list[j])'
    BY <1>2, <2>1 DEF IInv, ListSorted
  <2> QED
    BY <1>1, <2>2 DEF ListSorted, Left
<1>4. TypeOK'
  <2>1. tick' \in Tick
    BY <1>1, HalfBounds, PlusValue DEF IInv, TypeOK
  <2> QED
    BY <1>1, <2>1 DEF IInv, TypeOK
<1>5. NoneDue' /\ LocalInCallback' /\ DeletedUntouched'
  BY <1>1 DEF IInv, NoneDue, LocalInCallback, DeletedUntouched, Listed
<1>6. EqualKept
  BY <1>1, ListOrdered DEF IInv, EqualKept
<1> QED
  BY <1>3, <1>4, <1>5, <1>6 DEF IInv

(* The first timer goes to the local list. *)
LEMMA FireStep ==
  ASSUME IInv, Fire PROVE IInv' /\ EqualKept
<1> DEFINE t == Head(list)
<1>1. /\ phase = "check" /\ phase' = "callback"
      /\ list # <<>>
      /\ list' = Tail(list)
      /\ timeout' = [timeout EXCEPT ![t] = 0]
      /\ active' = [active EXCEPT ![t] = periodic[t]]
      /\ running' = t
      /\ inLocal' = TRUE
      /\ UNCHANGED <<tick, init, periodic, exists>>
  BY DEF Fire
<1>2. list \in Seq(Timer)
  BY DEF IInv, TypeOK
<1>3. t \in Timer /\ t \in Listed
  BY <1>1, HeadDue DEF IInv
<1>4. /\ list' \in Seq(Timer)
      /\ Members(list') = Listed \ {t}
      /\ Ordered(list', LeftsOf(timeout, tick))
  BY <1>1, <1>2, ListOrdered, TailMembers, TailOrdered DEF IInv, Listed
<1> HIDE DEF t
<1>5. timeout' \in [Timer -> Tick] /\ ListSorted' /\ EqualKept
  BY <1>1, <1>3, <1>4, LeftBehind DEF IInv
<1>6. TypeOK'
  BY <1>1, <1>3, <1>4, <1>5 DEF IInv, TypeOK
<1>7. NoneDue' /\ LocalInCallback'
  BY <1>1, <1>3 DEF NoneDue, LocalInCallback
<1>8. DeletedUntouched'
  BY <1>1, <1>3, <1>4 DEF IInv, DeletedUntouched, Listed
<1> QED
  BY <1>5, <1>6, <1>7, <1>8 DEF IInv

\* rt_timer_check behind a time-out function.
LEMMA CallbackReturnsStep ==
  ASSUME IInv, CallbackReturns PROVE IInv' /\ EqualKept
<1>1. /\ phase = "callback" /\ phase' = "check"
      /\ running' = Unset /\ inLocal' = FALSE
      /\ UNCHANGED <<tick, init, periodic, exists>>
      /\ running \in Timer
  BY DEF CallbackReturns, IInv, LocalInCallback
<1>2. NoneDue' /\ LocalInCallback'
  BY <1>1 DEF NoneDue, LocalInCallback
<1>3. CASE inLocal /\ Started(running)
  <2>1. /\ list' \in Seq(Timer)
        /\ timeout' \in [Timer -> Tick]
        /\ active' \in [Timer -> BOOLEAN]
        /\ Members(list') = Listed \union {running}
        /\ ListSorted'
        /\ EqualKept
    BY <1>1, <1>3, StartedKeeps DEF IInv
  <2>2. TypeOK'
    BY <1>1, <2>1 DEF IInv, TypeOK
  <2>3. DeletedUntouched'
    BY <1>1, <1>3, <2>1 DEF IInv, DeletedUntouched, Listed
  <2> QED
    BY <1>2, <2>1, <2>2, <2>3 DEF IInv
<1>4. CASE UNCHANGED <<list, timeout, active>>
  <2>1. ListSorted' /\ EqualKept
    BY <1>1, <1>4, SameListKeeps DEF SameList
  <2>2. TypeOK' /\ DeletedUntouched'
    BY <1>1, <1>4 DEF IInv, TypeOK, DeletedUntouched, Listed
  <2> QED
    BY <1>2, <2>1, <2>2 DEF IInv
<1> QED
  BY <1>3, <1>4 DEF CallbackReturns

\* rt_timer_check finds no timer due.
LEMMA CheckEndsStep ==
  ASSUME IInv, CheckEnds PROVE IInv' /\ EqualKept
<1>1. /\ phase = "check" /\ phase' = "idle"
      /\ list # <<>> => ~Due(Head(list))
      /\ UNCHANGED <<tick, list, timeout, init, active, periodic, exists,
                     running, inLocal>>
  BY DEF CheckEnds
<1>2. NoneDue'
  <2>1. ASSUME NEW i \in DOMAIN list PROVE Left(list[i]) >= 1
    <3>1. list # <<>>
      BY <2>1
    <3>2. Left(Head(list)) # 0 /\ Left(Head(list)) <= Left(list[i])
      BY <1>1, <3>1, HeadDue DEF IInv
    <3>3. Left(list[i]) \in Nat /\ Left(Head(list)) \in Nat
      <4>1. \E m \in DOMAIN list : Head(list) = list[m]
        BY <3>1, HeadDue DEF IInv, Listed, Members
      <4> QED
        BY <3>1, <4>1, HeadDue DEF IInv
    <3> QED
      BY <3>2, <3>3
  <2> QED
    BY <1>1, <2>1 DEF NoneDue, Left
<1>3. ListSorted'
  BY <1>1 DEF IInv, ListSorted, Left
<1>4. TypeOK' /\ LocalInCallback' /\ DeletedUntouched'
  BY <1>1 DEF IInv, TypeOK, LocalInCallback, DeletedUntouched, Listed
<1>5. EqualKept
  BY <1>1, ListOrdered DEF IInv, EqualKept
<1> QED
  BY <1>2, <1>3, <1>4, <1>5 DEF IInv

\* Every step keeps the invariant.
LEMMA StepIInv ==
  ASSUME IInv, [Next]_vars PROVE IInv' /\ EqualKept
<1>1. ASSUME NEW t \in Timer, NEW d \in Duration, NEW p \in BOOLEAN,
             \/ Start(t) \/ Stop(t) \/ Detach(t)
             \/ SetTime(t, d) \/ Initialise(t, d, p) \/ SetPeriodic(t, p)
      PROVE  IInv' /\ EqualKept
  BY <1>1, StartStep, RemoveStep, ControlStep
<1>2. PICK d \in Duration : TRUE
  BY TimerConstants
<1>3. CASE UNCHANGED vars
  <2>1. ListSorted' /\ NoneDue' /\ EqualKept
    BY <1>3, SameListKeeps DEF vars, SameList
  <2>2. TypeOK' /\ LocalInCallback' /\ DeletedUntouched'
    BY <1>3 DEF IInv, vars, TypeOK, LocalInCallback, DeletedUntouched, Listed
  <2> QED
    BY <2>1, <2>2 DEF IInv
<1>4. CASE TickIncrease \/ Fire \/ CallbackReturns \/ CheckEnds
  BY <1>4, TickIncreaseStep, FireStep, CallbackReturnsStep, CheckEndsStep
<1> QED
  BY <1>1, <1>2, <1>3, <1>4 DEF Next

\* The invariant holds in every behaviour.
LEMMA InvariantHolds == Spec => []IInv
<1>1. IInv /\ [Next]_vars => IInv'
  BY StepIInv
<1> QED
  BY <1>1, InitIInv, PTL DEF Spec

-----------------------------------------------------------------------------
(* What the flag of a timer says *)

Flags ==
  \A t \in Timer :
    /\ t \in Listed => active[t]
    /\ active[t] => \/ t \in Listed
                    \/ t = running /\ inLocal /\ periodic[t]

\* rt_timer_start sets the flag with the timer in the list,
LEMMA StartFlags ==
  ASSUME IInv, Flags, NEW t \in Timer, Started(t), tick' = tick,
         \/ running' = running /\ inLocal' = (inLocal /\ t # running)
         \/ running = t /\ inLocal' = FALSE,
         periodic' = periodic
  PROVE  Flags'
<1>1. Members(list') = Listed \union {t}
  BY StartedKeeps DEF IInv
<1>2. active' = [active EXCEPT ![t] = TRUE] /\ active \in [Timer -> BOOLEAN]
  BY DEF Started, IInv, TypeOK
<1> QED
  BY <1>1, <1>2 DEF Flags, Listed

\* rt_timer_stop and rt_timer_detach clear it without,
LEMMA RemoveFlags ==
  ASSUME IInv, Flags, NEW t \in Timer, Stop(t) \/ Detach(t) PROVE Flags'
<1>1. /\ Removed(t)
      /\ UNCHANGED <<tick, periodic, running>>
  BY DEF Stop, Detach
<1>2. Members(list') = Listed \ {t}
  BY <1>1, RemovedKeeps DEF IInv
<1>3. /\ active' = [active EXCEPT ![t] = FALSE] /\ active \in [Timer -> BOOLEAN]
      /\ inLocal' = (inLocal /\ t # running)
  BY <1>1 DEF Removed, IInv, TypeOK
<1> QED
  BY <1>1, <1>2, <1>3 DEF Flags, Listed

\* rt_timer_control leaves both,
LEMMA ControlFlags ==
  ASSUME OwnOneshot = FALSE, IInv, Flags,
         NEW t \in Timer, NEW d \in Duration, NEW p \in BOOLEAN,
         Initialise(t, d, p) \/ SetTime(t, d) \/ SetPeriodic(t, p)
  PROVE  Flags'
<1>1. /\ UNCHANGED <<list, active, running, inLocal>>
      /\ periodic' = periodic \/ periodic' = [periodic EXCEPT ![t] = p]
      /\ periodic \in [Timer -> BOOLEAN]
  BY DEF Initialise, SetTime, SetPeriodic, IInv, TypeOK
<1>2. t = running /\ inLocal => periodic' = periodic \/ periodic'[t]
  BY <1>1 DEF Initialise, SetTime, SetPeriodic, IInv, DeletedUntouched, TypeOK
<1>3. \A v \in Timer : v = running /\ inLocal /\ periodic[v] => periodic'[v]
  BY <1>1, <1>2
<1> QED
  BY <1>1, <1>3 DEF Flags, Listed

\* the check takes a timer off to call it back,
LEMMA FireFlags == ASSUME IInv, Flags, Fire PROVE Flags'
<1> DEFINE t == Head(list)
<1>1. /\ list' = Tail(list) /\ list # <<>> /\ list \in Seq(Timer)
      /\ active' = [active EXCEPT ![t] = periodic[t]]
      /\ active \in [Timer -> BOOLEAN] /\ periodic \in [Timer -> BOOLEAN]
      /\ running' = t /\ inLocal' = TRUE /\ periodic' = periodic
      /\ inLocal = FALSE
  BY DEF Fire, IInv, TypeOK, LocalInCallback
<1>2. t \in Timer
  BY <1>1, HeadDue DEF IInv
<1>3. Members(list') = Listed \ {t}
  BY <1>1, ListOrdered, TailMembers DEF IInv, Listed
<1> HIDE DEF t
<1> QED
  BY <1>1, <1>2, <1>3 DEF Flags, Listed

\* and restarts it or clears its flag.
LEMMA CallbackReturnsFlags ==
  ASSUME IInv, Flags, CallbackReturns PROVE Flags'
<1>1. /\ running \in Timer /\ running' = Unset /\ inLocal' = FALSE
      /\ UNCHANGED <<tick, periodic>>
  BY DEF CallbackReturns, IInv, LocalInCallback
<1>2. CASE Started(running)
  BY <1>1, <1>2, StartFlags
<1>3. CASE /\ ~(inLocal /\ periodic[running] /\ active[running])
           /\ UNCHANGED <<list, timeout, active>>
  BY <1>1, <1>3 DEF Flags, Listed
<1> QED
  BY <1>2, <1>3 DEF CallbackReturns

\* So every step keeps the flags.
LEMMA StepFlags ==
  ASSUME OwnOneshot = FALSE, IInv, Flags, [Next]_vars PROVE Flags'
<1>1. ASSUME NEW t \in Timer, Start(t) PROVE Flags'
  BY <1>1, StartFlags DEF Start
<1>2. ASSUME NEW t \in Timer, Stop(t) \/ Detach(t) PROVE Flags'
  BY <1>2, RemoveFlags
<1>3. ASSUME NEW t \in Timer, NEW d \in Duration, NEW p \in BOOLEAN,
             SetTime(t, d) \/ Initialise(t, d, p) \/ SetPeriodic(t, p)
      PROVE  Flags'
  BY <1>3, ControlFlags
<1>4. CASE TickIncrease \/ CheckEnds \/ UNCHANGED vars
  BY <1>4 DEF TickIncrease, CheckEnds, vars, Flags, Listed
<1>5. CASE Fire \/ CallbackReturns
  BY <1>5, FireFlags, CallbackReturnsFlags
<1>6. PICK d \in Duration : TRUE
  BY TimerConstants
<1> QED
  BY <1>1, <1>2, <1>3, <1>4, <1>5, <1>6 DEF Next

-----------------------------------------------------------------------------
(* The variables of the timers keep the values of their C types. *)
THEOREM TypeCorrect == Spec => []TypeOK
<1>1. IInv => TypeOK
  BY DEF IInv
<1> QED
  BY <1>1, InvariantHolds, PTL

(* The list is in the order of the time-outs across the wrap of the tick,   *)
(* with no timer twice and none overdue, so that rt_timer_check may look at *)
(* the first only.                                                          *)
THEOREM ListStaysSorted == Spec => []ListSorted
<1>1. IInv => ListSorted
  BY DEF IInv
<1> QED
  BY <1>1, InvariantHolds, PTL

(* The flag of every timer says whether it will fire, and a deleted timer   *)
(* is in no list, when no time-out function makes its own timer one-shot.   *)
THEOREM ActiveTimersWillFire ==
  ASSUME OwnOneshot = FALSE PROVE Spec => []ActiveWillFire
<1>1. Init => Flags
  BY DEF Init, Flags, Listed, Members
<1>2. IInv /\ Flags /\ [Next]_vars => Flags'
  BY StepFlags
<1>3. IInv /\ Flags => ActiveWillFire
  BY DEF IInv, Flags, ActiveWillFire
<1> QED
  BY <1>1, <1>2, <1>3, InvariantHolds, PTL DEF Spec

(* A time-out function is called at the very tick its timer was set to.     *)
THEOREM TimersFireOnTime == Spec => FiresOnTime
<1>1. ASSUME IInv, [Next]_vars
      PROVE  [phase = "check" /\ phase' = "callback" =>
                timeout[running'] = tick]_vars
  <2>1. SUFFICES ASSUME phase = "check", phase' = "callback"
                 PROVE  timeout[running'] = tick
    OBVIOUS
  <2>2. Fire
    BY <1>1, <2>1
    DEF Next, TickIncrease, CallbackReturns, CheckEnds, Start, Stop, Detach,
        SetTime, Initialise, SetPeriodic, vars
  <2>3. list # <<>> /\ Due(Head(list)) /\ running' = Head(list)
    BY <2>2 DEF Fire
  <2> QED
    BY <1>1, <2>3, HeadDue DEF IInv
<1> QED
  BY <1>1, InvariantHolds, PTL DEF Spec, FiresOnTime

(* Of timers that end at the same tick the one started first stays first.   *)
THEOREM EqualTimersInOrder == Spec => EqualInOrder
<1>1. ASSUME IInv, [Next]_vars PROVE [EqualKept]_vars
  BY <1>1, StepIInv
<1>2. EqualInOrder <=> [][EqualKept]_vars
  BY PTL DEF EqualInOrder, EqualKept
<1> QED
  BY <1>1, <1>2, InvariantHolds, PTL DEF Spec
=============================================================================
