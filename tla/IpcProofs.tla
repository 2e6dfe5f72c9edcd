----------------------------- MODULE IpcProofs -----------------------------
(***************************************************************************)
(* Theorems about Ipc: the wait lists of every object, priority inheritance *)
(* through a mutex, and the delivery of events, for any threads, handlers,  *)
(* priorities and sizes.                                                    *)
(***************************************************************************)
EXTENDS Ipc, IntrusiveListProofs

-----------------------------------------------------------------------------
(* What suspending, resuming and timing out do to the wait lists            *)

(* A thread is suspended exactly while it is in the list of the call it is  *)
(* in, once; its timer runs only then.                                      *)
Waits ==
  /\ waiters \in [List -> Seq(Thread)]
  /\ stat \in [Thread -> {"READY", "SUSPEND"}]
  /\ armed \in [Thread -> BOOLEAN]
  /\ at = [c \in Context |-> at[c]]
  /\ \A l \in List : Distinct(waiters[l])
  /\ \A l \in List : \A t \in Members(waiters[l]) : stat[t] = "SUSPEND" /\ at[t] = l
  /\ \A t \in Thread : stat[t] = "SUSPEND" =>
       at[t] \in List /\ t \in Members(waiters[at[t]])
  /\ \A t \in Thread : armed[t] => stat[t] = "SUSPEND"

\* Only contexts that are not suspended get on.
Advance ==
  /\ at' = [c \in Context |-> at'[c]]
  /\ \A t \in Thread : at'[t] # at[t] => stat[t] = "READY"

(* What a step of an object with the wait lists ls does to the threads.     *)
MoveStep    == Advance /\ UNCHANGED <<waiters, stat, armed>>
WaitStep(ls) == \E t \in Thread, l \in ls :
                 \E n \in 0 .. Len(waiters[l]), lim \in {"forever", "ticks", "zero"} :
                   /\ stat[t] = "READY"
                   /\ n = IF l = "pool" THEN 0 ELSE Place(l, t)
                   /\ Wait(t, l, n, lim)
ResumeStep  == /\ Advance
               /\ \E l \in List : \E ts \in SUBSET Members(waiters[l]) :
                    \E e \in {"EOK", "ETIMEOUT", "ERROR"} : Resume(l, ts, e)
ResumesStep == (\E ls \in SUBSET List : ResumeAll(ls)) /\ UNCHANGED at
TimeoutStep == \E t \in Thread : Timeout(t)

-----------------------------------------------------------------------------
(* Contexts that go on without waking anybody keep the lists exact.         *)
LEMMA MoveKeepsWaits == ASSUME Waits, MoveStep PROVE Waits'
<1>1. /\ waiters' = waiters /\ stat' = stat /\ armed' = armed
      /\ at' = [c \in Context |-> at'[c]]
      /\ \A t \in Thread : at'[t] # at[t] => stat[t] = "READY"
  BY DEF MoveStep, Advance
<1>2. \A l \in List : Members(waiters[l]) \subseteq Thread
  BY DEF Waits, Members
<1>3. ASSUME NEW l \in List, NEW t \in Members(waiters[l])
      PROVE  stat'[t] = "SUSPEND" /\ at'[t] = l
  BY <1>1, <1>2, <1>3 DEF Waits
<1>4. ASSUME NEW t \in Thread, stat'[t] = "SUSPEND"
      PROVE  at'[t] \in List /\ t \in Members(waiters'[at'[t]])
  BY <1>1, <1>4 DEF Waits
<1> QED
  BY <1>1, <1>3, <1>4 DEF Waits

(* _ipc_list_suspend of a thread that ran.                                  *)
LEMMA WaitKeepsWaits ==
  ASSUME Waits, NEW ls \in SUBSET List, WaitStep(ls)
  PROVE  Waits'
<1>1. PICK t \in Thread, l \in ls :
        \E n \in 0 .. Len(waiters[l]), lim \in {"forever", "ticks", "zero"} :
          stat[t] = "READY" /\ Wait(t, l, n, lim)
  BY DEF WaitStep
<1>2. PICK n \in 0 .. Len(waiters[l]), lim \in {"forever", "ticks", "zero"} :
        stat[t] = "READY" /\ Wait(t, l, n, lim)
  BY <1>1
<1> DEFINE r == LinkBehind(waiters[l], n, t)
<1>3. waiters[l] \in Seq(Thread) /\ Distinct(waiters[l])
  BY DEF Waits
<1>4. \A k \in List : t \notin Members(waiters[k])
  BY <1>2 DEF Waits
<1>5. r \in Seq(Thread)
  BY <1>3, LinkBehindProperties
<1>6. Members(r) = Members(waiters[l]) \union {t} /\ Distinct(r)
  BY <1>3, <1>4, LinkBehindMembers
<1> HIDE DEF r
<1>7. waiters' = [waiters EXCEPT ![l] = r]
  BY <1>2 DEF Wait, r
<1>8. /\ stat' = [stat EXCEPT ![t] = "SUSPEND"]
      /\ armed' = [armed EXCEPT ![t] = (lim = "ticks")]
      /\ at' = [at EXCEPT ![t] = l]
  BY <1>2 DEF Wait
<1>9. /\ waiters' \in [List -> Seq(Thread)]
      /\ waiters'[l] = r
      /\ \A k \in List \ {l} : waiters'[k] = waiters[k]
  BY <1>5, <1>7 DEF Waits
<1>10. t \in Context /\ at = [c \in Context |-> at[c]]
  BY DEF Context, Waits
<1>11. /\ at' = [c \in Context |-> at'[c]]
       /\ at'[t] = l /\ \A c \in Context \ {t} : at'[c] = at[c]
  BY <1>8, <1>10
<1>12. /\ stat' \in [Thread -> {"READY", "SUSPEND"}]
       /\ stat'[t] = "SUSPEND" /\ \A u \in Thread \ {t} : stat'[u] = stat[u]
       /\ armed' \in [Thread -> BOOLEAN]
       /\ \A u \in Thread \ {t} : armed'[u] = armed[u]
  BY <1>8 DEF Waits
<1>13. \A k \in List : Distinct(waiters'[k])
  BY <1>6, <1>9 DEF Waits
<1>14. \A k \in List : Members(waiters'[k]) =
          IF k = l THEN Members(waiters[k]) \union {t} ELSE Members(waiters[k])
  BY <1>6, <1>9
<1>15. \A k \in List : Members(waiters[k]) \subseteq Thread
  BY DEF Waits, Members
<1>16. Thread \subseteq Context
  BY DEF Context
<1>17. ASSUME NEW k \in List, NEW u \in Members(waiters'[k])
       PROVE  stat'[u] = "SUSPEND" /\ at'[u] = k
  <2>1. CASE u = t
    BY <1>4, <1>11, <1>12, <1>14, <1>17, <2>1
  <2>2. CASE u # t
    <3>1. u \in Members(waiters[k]) /\ u \in Thread
      BY <1>14, <1>15, <1>17, <2>2
    <3>2. stat[u] = "SUSPEND" /\ at[u] = k
      BY <3>1 DEF Waits
    <3> QED
      BY <1>11, <1>12, <1>16, <2>2, <3>1, <3>2
  <2> QED
    BY <2>1, <2>2
<1>18. ASSUME NEW u \in Thread, stat'[u] = "SUSPEND"
       PROVE  at'[u] \in List /\ u \in Members(waiters'[at'[u]])
  <2>1. CASE u = t
    BY <1>11, <1>14, <2>1
  <2>2. CASE u # t
    <3>1. at[u] \in List /\ u \in Members(waiters[at[u]])
      BY <1>12, <1>18, <2>2 DEF Waits
    <3> QED
      BY <1>11, <1>14, <1>16, <2>2, <3>1
  <2> QED
    BY <2>1, <2>2
<1>19. \A u \in Thread : armed'[u] => stat'[u] = "SUSPEND"
  BY <1>12 DEF Waits
<1> QED
  BY <1>9, <1>11, <1>12, <1>13, <1>17, <1>18, <1>19 DEF Waits

(* rt_thread_resume of some waiters of one list.                            *)
LEMMA ResumeKeepsWaits == ASSUME Waits, ResumeStep PROVE Waits'
<1>0. PICK l \in List : \E ts \in SUBSET Members(waiters[l]) :
        \E e \in {"EOK", "ETIMEOUT", "ERROR"} : Resume(l, ts, e)
  BY DEF ResumeStep
<1>1. PICK ts \in SUBSET Members(waiters[l]) :
        \E e \in {"EOK", "ETIMEOUT", "ERROR"} : Resume(l, ts, e)
  BY <1>0
<1> DEFINE r == UnlinkAll(waiters[l], ts)
<1>2. waiters[l] \in Seq(Thread) /\ Distinct(waiters[l])
  BY DEF Waits
<1>3. r \in Seq(Thread) /\ Members(r) = Members(waiters[l]) \ ts /\ Distinct(r)
  BY <1>2, UnlinkAllProperties
<1> HIDE DEF r
<1>4. /\ waiters' = [waiters EXCEPT ![l] = r]
      /\ stat' = [t \in Thread |-> IF t \in ts THEN "READY" ELSE stat[t]]
      /\ armed' = [t \in Thread |-> armed[t] /\ t \notin ts]
  BY <1>1 DEF Resume, r
<1>5. /\ waiters' \in [List -> Seq(Thread)]
      /\ waiters'[l] = r
      /\ \A k \in List \ {l} : waiters'[k] = waiters[k]
  BY <1>3, <1>4 DEF Waits
<1>6. /\ at' = [c \in Context |-> at'[c]]
      /\ \A t \in Thread : at'[t] # at[t] => stat[t] = "READY"
  BY DEF ResumeStep, Advance
<1>7. /\ stat' \in [Thread -> {"READY", "SUSPEND"}]
      /\ armed' \in [Thread -> BOOLEAN]
      /\ \A t \in Thread : armed'[t] => stat'[t] = "SUSPEND"
  BY <1>4 DEF Waits
<1>8. \A k \in List : Distinct(waiters'[k])
  BY <1>3, <1>5 DEF Waits
<1>9. \A k \in List : Members(waiters'[k]) = Members(waiters[k]) \ ts
  <2>1. ASSUME NEW k \in List \ {l}, NEW t \in ts PROVE t \notin Members(waiters[k])
    BY DEF Waits
  <2> QED
    BY <1>3, <1>5, <2>1
<1>10. \A k \in List : Members(waiters[k]) \subseteq Thread
  BY DEF Waits, Members
<1>11. ASSUME NEW k \in List, NEW t \in Members(waiters'[k])
       PROVE  stat'[t] = "SUSPEND" /\ at'[t] = k
  <2>1. t \in Thread /\ t \notin ts /\ t \in Members(waiters[k])
    BY <1>9, <1>10, <1>11
  <2>2. stat[t] = "SUSPEND" /\ at[t] = k
    BY <2>1 DEF Waits
  <2> QED
    BY <1>4, <1>6, <2>1, <2>2
<1>12. ASSUME NEW t \in Thread, stat'[t] = "SUSPEND"
       PROVE  at'[t] \in List /\ t \in Members(waiters'[at'[t]])
  <2>1. stat[t] = "SUSPEND" /\ t \notin ts
    BY <1>4, <1>12
  <2>2. at[t] \in List /\ t \in Members(waiters[at[t]])
    BY <2>1 DEF Waits
  <2> QED
    BY <1>6, <1>9, <2>1, <2>2
<1> QED
  BY <1>5, <1>6, <1>7, <1>8, <1>11, <1>12 DEF Waits

(* _ipc_list_resume_all of some lists.                                      *)
LEMMA ResumesKeepWaits == ASSUME Waits, ResumesStep PROVE Waits'
<1>1. PICK ls \in SUBSET List : ResumeAll(ls)
  BY DEF ResumesStep
<1> DEFINE ts == UNION {ToSet(waiters[l]) : l \in ls}
<1>2. \A l \in List : ToSet(waiters[l]) = Members(waiters[l])
  BY DEF ToSet, Members
<1>3. ts = UNION {Members(waiters[l]) : l \in ls}
  BY <1>2
<1>4. /\ waiters' = [l \in List |-> IF l \in ls THEN <<>> ELSE waiters[l]]
      /\ stat' = [t \in Thread |-> IF t \in ts THEN "READY" ELSE stat[t]]
      /\ armed' = [t \in Thread |-> armed[t] /\ t \notin ts]
      /\ at' = at
  BY <1>1 DEF ResumeAll, ResumesStep
<1> HIDE DEF ts
<1>5. /\ stat' \in [Thread -> {"READY", "SUSPEND"}]
      /\ armed' \in [Thread -> BOOLEAN]
      /\ \A t \in Thread : armed'[t] => stat'[t] = "SUSPEND"
  BY <1>4 DEF Waits
<1>6. waiters' \in [List -> Seq(Thread)]
  BY <1>4 DEF Waits
<1>7. \A l \in List : Members(waiters'[l]) = IF l \in ls THEN {} ELSE Members(waiters[l])
  BY <1>4 DEF Members
<1>8. \A l \in List : Distinct(waiters'[l])
  BY <1>4 DEF Waits, Distinct
<1>9. \A l \in List : Members(waiters[l]) \subseteq Thread
  BY DEF Waits, Members
<1>10. ASSUME NEW l \in List, NEW t \in Members(waiters'[l])
       PROVE  stat'[t] = "SUSPEND" /\ at'[t] = l
  <2>1. l \notin ls /\ t \in Members(waiters[l]) /\ t \in Thread
    BY <1>7, <1>9, <1>10
  <2>2. stat[t] = "SUSPEND" /\ at[t] = l
    BY <2>1 DEF Waits
  <2>3. ASSUME NEW k \in ls PROVE t \notin Members(waiters[k])
    <3>1. k \in List /\ k # l
      BY <2>1
    <3>2. \A u \in Members(waiters[k]) : at[u] = k
      BY <3>1 DEF Waits
    <3> QED
      BY <2>2, <3>1, <3>2
  <2> QED
    BY <1>3, <1>4, <2>1, <2>2, <2>3
<1>11. ASSUME NEW t \in Thread, stat'[t] = "SUSPEND"
       PROVE  at'[t] \in List /\ t \in Members(waiters'[at'[t]])
  <2>1. stat[t] = "SUSPEND" /\ t \notin ts
    BY <1>4, <1>11
  <2>2. at[t] \in List /\ t \in Members(waiters[at[t]])
    BY <2>1 DEF Waits
  <2>3. at[t] \notin ls
    BY <1>3, <2>1, <2>2
  <2> QED
    BY <1>4, <1>7, <2>2, <2>3
<1>12. at' = [c \in Context |-> at'[c]]
  BY <1>4 DEF Waits
<1> QED
  BY <1>5, <1>6, <1>8, <1>10, <1>11, <1>12 DEF Waits

(* rt_thread_timeout of the thread whose timer ends.                        *)
LEMMA TimeoutKeepsWaits == ASSUME Waits, TimeoutStep PROVE Waits'
<1>1. PICK t \in Thread : Timeout(t)
  BY DEF TimeoutStep
<1> DEFINE r == [l \in List |-> Unlink(waiters[l], t)]
<1>2. \A l \in List : waiters[l] \in Seq(Thread) /\ Distinct(waiters[l])
  BY DEF Waits
<1>3. \A l \in List : /\ r[l] \in Seq(Thread)
                      /\ Members(r[l]) = Members(waiters[l]) \ {t}
                      /\ Distinct(r[l])
  BY <1>2, UnlinkProperties
<1>4. /\ waiters' = r
      /\ stat' = [stat EXCEPT ![t] = "READY"]
      /\ armed' = [armed EXCEPT ![t] = FALSE]
      /\ at' = at
  BY <1>1 DEF Timeout
<1>5. r \in [List -> Seq(Thread)]
  BY <1>3
<1> HIDE DEF r
<1>6. /\ waiters' \in [List -> Seq(Thread)]
      /\ \A l \in List : Distinct(waiters'[l])
      /\ \A l \in List : Members(waiters'[l]) = Members(waiters[l]) \ {t}
  BY <1>3, <1>4, <1>5
<1>7. /\ stat' \in [Thread -> {"READY", "SUSPEND"}]
      /\ armed' \in [Thread -> BOOLEAN]
      /\ \A u \in Thread : armed'[u] => stat'[u] = "SUSPEND"
      /\ \A u \in Thread : stat'[u] = IF u = t THEN "READY" ELSE stat[u]
  BY <1>4 DEF Waits
<1>8. \A l \in List : Members(waiters[l]) \subseteq Thread
  BY <1>2 DEF Members
<1>9. ASSUME NEW l \in List, NEW u \in Members(waiters'[l])
      PROVE  stat'[u] = "SUSPEND" /\ at'[u] = l
  <2>1. u \in Members(waiters[l]) /\ u # t /\ u \in Thread
    BY <1>6, <1>8, <1>9
  <2>2. stat[u] = "SUSPEND" /\ at[u] = l
    BY <2>1 DEF Waits
  <2> QED
    BY <1>4, <1>7, <2>1, <2>2
<1>10. ASSUME NEW u \in Thread, stat'[u] = "SUSPEND"
       PROVE  at'[u] \in List /\ u \in Members(waiters'[at'[u]])
  <2>1. u # t /\ stat[u] = "SUSPEND"
    BY <1>7, <1>10
  <2>2. at[u] \in List /\ u \in Members(waiters[at[u]])
    BY <2>1 DEF Waits
  <2> QED
    BY <1>4, <1>6, <2>1, <2>2
<1>11. at' = [c \in Context |-> at'[c]]
  BY <1>4 DEF Waits
<1> QED
  BY <1>6, <1>7, <1>9, <1>10, <1>11 DEF Waits

-----------------------------------------------------------------------------
(* The order of the waiters *)

AnyStep(ls) ==
  MoveStep \/ WaitStep(ls) \/ ResumeStep \/ ResumesStep \/ TimeoutStep

(* Any step keeps the lists exact.                                          *)
LEMMA StepKeepsWaits ==
  ASSUME Waits, NEW ls \in SUBSET List, AnyStep(ls)
  PROVE  Waits'
BY MoveKeepsWaits, WaitKeepsWaits, ResumeKeepsWaits, ResumesKeepWaits,
   TimeoutKeepsWaits DEF AnyStep

\* Lists that _ipc_list_suspend keeps in the order of priorities.
ByPriority(l) == l # "pool" /\ (flag = "PRIO" \/ l = "mutex")

Ordered == \A l \in List : ByPriority(l) => InOrder(waiters[l], prio)

(* The order of a list depends on nobody else's priority.                   *)
LEMMA SameOrder ==
  ASSUME NEW s, NEW w, InOrder(s, w), NEW v, \A t \in Members(s) : v[t] = w[t]
  PROVE  InOrder(s, v)
BY DEF InOrder, Members

(* Waiting, resuming and timing out keep every such list ordered by the     *)
(* priorities the threads had before.                                       *)
LEMMA StepKeepsOrder ==
  ASSUME Waits, Ordered, prio \in [Thread -> Nat], NEW ls \in SUBSET List,
         AnyStep(ls), NEW l \in List, ByPriority(l)
  PROVE  InOrder(waiters'[l], prio)
<1>1. InOrder(waiters[l], prio)
  BY DEF Ordered
<1>2. waiters[l] \in Seq(Thread) /\ Distinct(waiters[l])
  BY DEF Waits
<1>3. CASE MoveStep
  BY <1>1, <1>3 DEF MoveStep
<1>4. CASE WaitStep(ls)
  <2>1. PICK t \in Thread, k \in ls :
          \E n \in 0 .. Len(waiters[k]), lim \in {"forever", "ticks", "zero"} :
            /\ stat[t] = "READY"
            /\ n = IF k = "pool" THEN 0 ELSE Place(k, t)
            /\ Wait(t, k, n, lim)
    BY <1>4 DEF WaitStep
  <2>2. PICK n \in 0 .. Len(waiters[k]), lim \in {"forever", "ticks", "zero"} :
            /\ stat[t] = "READY"
            /\ n = IF k = "pool" THEN 0 ELSE Place(k, t)
            /\ Wait(t, k, n, lim)
    BY <2>1
  <2>3. waiters' = [waiters EXCEPT ![k] = LinkBehind(waiters[k], n, t)]
    BY <2>2 DEF Wait
  <2>4. CASE k # l
    <3>1. waiters'[l] = waiters[l]
      BY <2>3, <2>4 DEF Waits
    <3> QED
      BY <1>1, <3>1
  <2>5. CASE k = l
    <3>1. t \notin Members(waiters[l])
      BY <2>2 DEF Waits
    <3>2. waiters'[l] = LinkBehind(waiters[l], n, t)
      BY <2>3, <2>5 DEF Waits
    <3>3. n = Cardinality({i \in DOMAIN waiters[l] : prio[waiters[l][i]] <= prio[t]})
      BY <2>2, <2>5 DEF Place, ByPriority
    <3> QED
      BY <1>1, <1>2, <3>1, <3>2, <3>3, LinkInOrder
  <2> QED
    BY <2>4, <2>5
<1>5. CASE ResumeStep
  <2>1. PICK k \in List : \E ts \in SUBSET Members(waiters[k]) :
          \E e \in {"EOK", "ETIMEOUT", "ERROR"} : Resume(k, ts, e)
    BY <1>5 DEF ResumeStep
  <2>2. PICK ts : waiters' = [waiters EXCEPT ![k] = UnlinkAll(waiters[k], ts)]
    BY <2>1 DEF Resume
  <2>3. waiters'[l] = IF k = l THEN UnlinkAll(waiters[l], ts) ELSE waiters[l]
    BY <2>2 DEF Waits
  <2> QED
    BY <1>1, <1>2, <2>3, UnlinkAllProperties
<1>6. CASE ResumesStep
  <2>1. waiters'[l] = <<>> \/ waiters'[l] = waiters[l]
    BY <1>6 DEF ResumesStep, ResumeAll
  <2> QED
    BY <1>1, <2>1 DEF InOrder
<1>7. CASE TimeoutStep
  <2>1. PICK t : waiters'[l] = Unlink(waiters[l], t)
    BY <1>7 DEF TimeoutStep, Timeout
  <2> QED
    BY <1>1, <1>2, <2>1, UnlinkInOrder
<1> QED
  BY <1>3, <1>4, <1>5, <1>6, <1>7 DEF AnyStep

(* Lists that an object does not have stay empty.                           *)
LEMMA StepKeepsEmpty ==
  ASSUME Waits, NEW ls \in SUBSET List, AnyStep(ls),
         NEW l \in List, l \notin ls, waiters[l] = <<>>
  PROVE  waiters'[l] = <<>>
<1>1. CASE MoveStep
  BY <1>1 DEF MoveStep
<1>2. CASE WaitStep(ls)
  BY <1>2 DEF WaitStep, Wait, Waits
<1>3. CASE ResumeStep
  <2>1. PICK k \in List : \E ts \in SUBSET Members(waiters[k]) :
          \E e \in {"EOK", "ETIMEOUT", "ERROR"} : Resume(k, ts, e)
    BY <1>3 DEF ResumeStep
  <2>2. PICK ts : waiters' = [waiters EXCEPT ![k] = UnlinkAll(waiters[k], ts)]
    BY <2>1 DEF Resume
  <2>3. waiters[l] \in Seq(Thread) /\ waiters'[l] \in Seq(Thread)
    BY StepKeepsWaits DEF Waits
  <2>4. Members(UnlinkAll(waiters[l], ts)) = Members(waiters[l]) \ ts
    BY <2>3, UnlinkAllProperties
  <2>5. Members(waiters[l]) = {}
    BY DEF Members
  <2>6. Members(waiters'[l]) = {}
    BY <2>2, <2>4, <2>5 DEF Waits
  <2> QED
    BY <2>3, <2>6, NoMembers
<1>4. CASE ResumesStep
  BY <1>4 DEF ResumesStep, ResumeAll
<1>5. CASE TimeoutStep
  BY <1>5 DEF TimeoutStep, Timeout, Unlink
<1> QED
  BY <1>1, <1>2, <1>3, <1>4, <1>5 DEF AnyStep

-----------------------------------------------------------------------------
(* The steps of the calls *)

(* _ipc_list_resume wakes the first waiter, or nobody.                      *)
LEMMA ResumeFirstStep ==
  ASSUME Waits, error \in [Thread -> {"EOK", "ETIMEOUT", "ERROR"}], Advance,
         NEW l \in List, ResumeFirst(l)
  PROVE  /\ MoveStep \/ ResumeStep
         /\ error' \in [Thread -> {"EOK", "ETIMEOUT", "ERROR"}]
<1>1. CASE waiters[l] = <<>>
  BY <1>1 DEF ResumeFirst, threadVars, MoveStep
<1>2. CASE waiters[l] # <<>>
  <2> DEFINE h == Head(waiters[l])
  <2>1. waiters[l] \in Seq(Thread)
    BY DEF Waits
  <2>2. h \in Members(waiters[l]) /\ h \in Thread
    BY <1>2, <2>1 DEF Members
  <2>3. Resume(l, {h}, error[h])
    BY <1>2 DEF ResumeFirst
  <2>4. error[h] \in {"EOK", "ETIMEOUT", "ERROR"} /\ {h} \in SUBSET Members(waiters[l])
    BY <2>2
  <2>5. error' \in [Thread -> {"EOK", "ETIMEOUT", "ERROR"}]
    BY <2>3, <2>4 DEF Resume
  <2> HIDE DEF h
  <2>6. ResumeStep
    BY <2>3, <2>4 DEF ResumeStep
  <2> QED
    BY <2>5, <2>6
<1> QED
  BY <1>1, <1>2

(* A context that is not suspended may move.                                *)
LEMMA AdvanceOne ==
  ASSUME Waits, NEW c \in Context, NEW to, at' = [at EXCEPT ![c] = to],
         c \in Thread => at[c] \notin List \/ stat[c] = "READY"
  PROVE  Advance
<1>1. at = [x \in Context |-> at[x]]
  BY DEF Waits
<1>2. at' = [x \in Context |-> at'[x]] /\ \A x \in Context \ {c} : at'[x] = at[x]
  BY <1>1
<1>3. c \in Thread => stat[c] = "READY"
  BY ZenonT(30) DEF Waits
<1>4. Thread \subseteq Context
  BY DEF Context
<1> QED
  BY <1>2, <1>3, <1>4 DEF Advance

(* Nobody moves.                                                            *)
LEMMA AdvanceNone == ASSUME Waits, at' = at PROVE Advance
BY DEF Waits, Advance

(* _ipc_list_suspend and rt_list_insert_after find a place in the list.     *)
LEMMA PlaceInList ==
  ASSUME Waits, prio \in [Thread -> Nat], NEW t \in Thread, NEW l \in List
  PROVE  Place(l, t) \in 0 .. Len(waiters[l])
<1> DEFINE B == {i \in DOMAIN waiters[l] : prio[waiters[l][i]] <= prio[t]}
<1>1. waiters[l] \in Seq(Thread)
  BY DEF Waits
<1>2. B \subseteq 1 .. Len(waiters[l])
  BY <1>1
<1>3. IsFiniteSet(1 .. Len(waiters[l])) /\ Cardinality(1 .. Len(waiters[l])) = Len(waiters[l])
  <2> DEFINE n == Len(waiters[l])
  <2>1. n \in Nat
    BY <1>1
  <2> HIDE DEF n
  <2>2. IsFiniteSet(1 .. n) /\ Cardinality(1 .. n) = n
    BY <2>1, FS_Interval, SMTT(30)
  <2> QED
    BY <2>2 DEF n
<1>4. Cardinality(B) \in 0 .. Len(waiters[l])
  <2> HIDE DEF B
  <2>1. IsFiniteSet(B) /\ Cardinality(B) <= Len(waiters[l])
    BY <1>2, <1>3, FS_Subset
  <2> QED
    BY <2>1, FS_CardinalityType
<1> QED
  BY <1>1, <1>4 DEF Place

-----------------------------------------------------------------------------
Error == {"EOK", "ETIMEOUT", "ERROR"}
Limit == {"forever", "ticks", "zero"}

\* The types of what all objects share, without the lists and priorities.
Typed ==
  /\ object \in DOMAIN Uses \union {None}
  /\ flag \in {"PRIO", "FIFO"}
  /\ error \in [Thread -> Error]
  /\ limit \in [Thread -> Limit]

-----------------------------------------------------------------------------
(* What each section of each call does to the threads *)

(* A section that wakes nobody and whose caller does not wait.              *)
LEMMA StaySection ==
  ASSUME Waits, Typed, UNCHANGED <<object, flag, threadVars, limit, at>>,
         NEW ls \in SUBSET List
  PROVE  AnyStep(ls) /\ Typed'
BY AdvanceNone DEF Typed, threadVars, MoveStep, AnyStep

(* The end of a call, or its way from one section to the next.              *)
LEMMA MoveSection ==
  ASSUME Waits, Typed, UNCHANGED <<object, flag, waiters, stat, armed>>,
         error' \in [Thread -> Error], limit' \in [Thread -> Limit],
         NEW c \in Context, NEW to, at' = [at EXCEPT ![c] = to],
         c \in Thread => at[c] \notin List \/ stat[c] = "READY",
         NEW ls \in SUBSET List
  PROVE  AnyStep(ls) /\ Typed'
BY AdvanceOne DEF Typed, MoveStep, AnyStep

(* A section that wakes the first waiter of a list and goes on.             *)
LEMMA WakeSection ==
  ASSUME Waits, Typed, UNCHANGED <<object, flag, limit, at>>,
         NEW l \in List, ResumeFirst(l), NEW ls \in SUBSET List
  PROVE  AnyStep(ls) /\ Typed'
<1>1. Advance
  BY AdvanceNone
<1>2. (MoveStep \/ ResumeStep) /\ error' \in [Thread -> Error]
  BY <1>1, ResumeFirstStep DEF Typed, Error
<1> QED
  BY <1>2 DEF Typed, AnyStep

(* A section that wakes the first waiter of a list and ends the call.       *)
LEMMA WakeReturnSection ==
  ASSUME Waits, Typed, UNCHANGED <<object, flag>>,
         NEW l \in List, ResumeFirst(l),
         NEW c \in Context, Return(c), at[c] \notin List, NEW ls \in SUBSET List
  PROVE  AnyStep(ls) /\ Typed'
<1>1. at' = [at EXCEPT ![c] = "idle"] /\ limit' \in [Thread -> Limit]
  BY DEF Return, Typed, Limit
<1>2. Advance
  BY <1>1, AdvanceOne
<1>3. (MoveStep \/ ResumeStep) /\ error' \in [Thread -> Error]
  BY <1>2, ResumeFirstStep DEF Typed, Error
<1> QED
  BY <1>1, <1>3 DEF Typed, AnyStep

(* A section that wakes all waiters of some lists.                          *)
LEMMA WakeAllSection ==
  ASSUME Waits, Typed, UNCHANGED <<flag, limit, at>>,
         object' \in DOMAIN Uses \union {None},
         NEW k \in SUBSET List, ResumeAll(k), NEW ls \in SUBSET List
  PROVE  AnyStep(ls) /\ Typed'
<1>1. ResumesStep
  BY DEF ResumesStep
<1>2. error' = [t \in Thread |->
         IF t \in UNION {ToSet(waiters[l]) : l \in k} THEN "ERROR" ELSE error[t]]
  BY DEF ResumeAll
<1>3. error' \in [Thread -> Error]
  BY <1>2 DEF Typed, Error
<1> QED
  BY <1>1, <1>3 DEF Typed, AnyStep

(* A section that ends with the caller in a wait list.                      *)
LEMMA WaitSection ==
  ASSUME Waits, Typed, prio \in [Thread -> Nat], UNCHANGED <<object, flag>>,
         NEW t \in Thread, NEW l \in List, NEW n,
         n = IF l = "pool" THEN 0 ELSE Place(l, t),
         NEW lim \in Limit, Wait(t, l, n, lim),
         at[t] \notin List \/ stat[t] = "READY",
         NEW ls \in SUBSET List, l \in ls
  PROVE  AnyStep(ls) /\ Typed'
<1>1. stat[t] = "READY"
  BY DEF Waits
<1>2. n \in 0 .. Len(waiters[l])
  <2>1. Len(waiters[l]) \in Nat
    BY DEF Waits
  <2> QED
    BY <2>1, PlaceInList
<1>3. WaitStep(ls)
  BY <1>1, <1>2 DEF WaitStep, Limit
<1>4. error' \in [Thread -> Error] /\ limit' \in [Thread -> Limit]
  BY DEF Wait, Typed, Error
<1> QED
  BY <1>3, <1>4 DEF Typed, AnyStep

-----------------------------------------------------------------------------
(* rt_mutex_take and rt_mutex_release                                       *)
LEMMA MutexSections ==
  ASSUME Waits, Typed, prio \in [Thread -> Nat], MutexNext,
         UNCHANGED <<object, flag>>
  PROVE  AnyStep({"mutex"}) /\ Typed'
<1>0. {"mutex"} \in SUBSET List /\ "mutex" \in List /\ Limits \subseteq Limit
  BY WaitingConstants DEF List, Limit
<1>1. PICK t \in Thread :
        \/ MutexTake(t) \/ MutexTakeAgain(t) \/ MutexReleaseOne(t) \/ MutexFree(t)
        \/ \E lim \in Limits : MutexBlock(t, lim)
        \/ MutexTaken(t)
        \/ MutexHandOver(t)
  BY DEF MutexNext
<1>2. CASE MutexTake(t) \/ MutexTakeAgain(t) \/ MutexReleaseOne(t) \/ MutexFree(t)
  BY <1>0, <1>2, StaySection DEF MutexTake, MutexTakeAgain, MutexReleaseOne, MutexFree
<1>3. CASE \E lim \in Limits : MutexBlock(t, lim)
  <2>1. PICK lim \in Limit : MutexBlock(t, lim)
    BY <1>0, <1>3
  <2>2. at[t] \notin List /\ Wait(t, "mutex", Place("mutex", t), lim)
    BY <2>1 DEF MutexBlock, Idle, List
  <2> QED
    BY <1>0, <2>2, WaitSection
<1>4. CASE MutexTaken(t)
  <2>1. /\ UNCHANGED <<waiters, stat, armed, error>>
        /\ at' = [at EXCEPT ![t] = "idle"]
        /\ limit' \in [Thread -> Limit]
        /\ stat[t] = "READY"
        /\ t \in Context
    BY <1>4 DEF MutexTaken, Woken, Return, threadVars, Typed, Limit, Context
  <2> QED
    BY <1>0, <2>1, MoveSection DEF Typed
<1>5. CASE MutexHandOver(t)
  BY <1>0, <1>5, WakeSection DEF MutexHandOver
<1> QED
  BY <1>1, <1>2, <1>3, <1>4, <1>5

(* rt_event_send, rt_event_recv and the reset.                              *)
LEMMA EventSections ==
  ASSUME Waits, Typed, prio \in [Thread -> Nat], EventNext,
         UNCHANGED <<object, flag>>
  PROVE  AnyStep({"event"}) /\ Typed'
<1>0. {"event"} \in SUBSET List /\ "event" \in List /\ Limits \subseteq Limit
  BY WaitingConstants DEF List, Limit
<1>1. ASSUME NEW c \in Context, NEW sent \in SUBSET Bit, EventSend(c, sent)
      PROVE  AnyStep({"event"}) /\ Typed'
  <2>1. PICK places : /\ places \subseteq DOMAIN waiters["event"]
                      /\ Resume("event", {waiters["event"][i] : i \in places}, "EOK")
                      /\ limit' = limit /\ at' = at
    BY <1>1 DEF EventSend, ToWake
  <2> DEFINE ts == {waiters["event"][i] : i \in places}
  <2>2. ts \in SUBSET Members(waiters["event"])
    BY <2>1 DEF Members
  <2>3. error' = [t \in Thread |-> IF t \in ts THEN "EOK" ELSE error[t]]
    BY <2>1 DEF Resume
  <2>4. error' \in [Thread -> Error]
    BY <2>3 DEF Typed, Error
  <2>5. Advance
    BY <2>1, AdvanceNone
  <2> HIDE DEF ts
  <2>6. ResumeStep
    BY <1>0, <2>1, <2>2, <2>5 DEF ResumeStep, ts
  <2> QED
    BY <2>1, <2>4, <2>6 DEF Typed, AnyStep
<1>2. ASSUME NEW c \in Context, EventReset(c) PROVE AnyStep({"event"}) /\ Typed'
  BY <1>0, <1>2, WakeAllSection DEF EventReset, Typed
<1>3. ASSUME NEW t \in Thread, NEW want \in SUBSET Bit, NEW how \in Info,
             EventRecv(t, want, how)
      PROVE  AnyStep({"event"}) /\ Typed'
  BY <1>0, <1>3, StaySection DEF EventRecv
<1>4. ASSUME NEW t \in Thread, NEW want \in SUBSET Bit, NEW how \in Info,
             NEW lim \in Limits, EventWait(t, want, how, lim)
      PROVE  AnyStep({"event"}) /\ Typed'
  <2>1. lim \in Limit /\ at[t] \notin List
    BY <1>0, <1>4 DEF EventWait, Idle, List
  <2>2. Wait(t, "event", Place("event", t), lim)
    BY <1>4 DEF EventWait
  <2> QED
    BY <1>0, <2>1, <2>2, WaitSection
<1>5. ASSUME NEW t \in Thread, EventReturn(t) PROVE AnyStep({"event"}) /\ Typed'
  <2>1. /\ UNCHANGED <<waiters, stat, armed, error>>
        /\ at' = [at EXCEPT ![t] = "idle"]
        /\ limit' \in [Thread -> Limit]
        /\ stat[t] = "READY"
        /\ t \in Context
    BY <1>5 DEF EventReturn, Woken, Return, threadVars, Typed, Limit, Context
  <2> QED
    BY <1>0, <2>1, MoveSection DEF Typed
<1> QED
  BY <1>1, <1>2, <1>3, <1>4, <1>5 DEF EventNext

(* The steps of a call behind its wait at the mailbox.                      *)
LEMMA MailboxUnlockedSections ==
  ASSUME Waits, Typed, prio \in [Thread -> Nat], UNCHANGED <<object, flag>>,
         NEW t \in Thread,
         \/ MbSendRetest(t) \/ MbSendAgain(t) \/ MbStore(t) \/ MbIn(t)
         \/ MbCountUp(t) \/ MbWakeRecv(t) \/ MbRecvRetest(t) \/ MbRecvAgain(t)
         \/ MbOut(t) \/ MbCountDown(t) \/ MbWakeSend(t)
  PROVE  AnyStep({"mbRecv", "mbSend"}) /\ Typed'
<1> DEFINE ls == {"mbRecv", "mbSend"}
<1>0. /\ ls \in SUBSET List /\ "mbRecv" \in List /\ "mbSend" \in List
      /\ t \in Context
      /\ limit[t] \in Limit /\ Remaining(t) \subseteq Limit
  BY DEF List, Context, Typed, Limit, Remaining
<1>1. CASE MbStore(t) \/ MbIn(t) \/ MbCountUp(t) \/ MbOut(t) \/ MbCountDown(t)
  <2>1. /\ UNCHANGED <<waiters, stat, armed, error, limit>>
        /\ \E to : at' = [at EXCEPT ![t] = to]
        /\ at[t] \notin List
    BY <1>1 DEF MbStore, MbIn, MbCountUp, MbOut, MbCountDown, Goto, threadVars, List
  <2> QED
    BY <1>0, <2>1, MoveSection DEF Typed
<1>2. CASE MbSendRetest(t) \/ MbRecvRetest(t)
  <2>1. /\ UNCHANGED <<waiters, stat, armed, error>>
        /\ stat[t] = "READY"
    BY <1>2 DEF MbSendRetest, MbRecvRetest, Woken, threadVars
  <2>2. \E to : at' = [at EXCEPT ![t] = to]
    BY <1>2 DEF MbSendRetest, MbRecvRetest, Goto, Return
  <2>3. limit' \in [Thread -> Limit]
    BY <1>0, <1>2 DEF MbSendRetest, MbRecvRetest, Goto, Return, Typed, Limit
  <2> QED
    BY <1>0, <2>1, <2>2, <2>3, MoveSection DEF Typed
<1>3. CASE MbSendAgain(t)
  <2>1. at[t] \notin List /\ Wait(t, "mbSend", Place("mbSend", t), limit[t])
    BY <1>3 DEF MbSendAgain, List
  <2> QED
    BY <1>0, <2>1, WaitSection
<1>4. CASE MbRecvAgain(t)
  <2>1. at[t] \notin List /\ Wait(t, "mbRecv", Place("mbRecv", t), limit[t])
    BY <1>4 DEF MbRecvAgain, List
  <2> QED
    BY <1>0, <2>1, WaitSection
<1>5. CASE MbWakeRecv(t) \/ MbWakeSend(t)
  <2>1. at[t] \notin List /\ Return(t) /\ (ResumeFirst("mbRecv") \/ ResumeFirst("mbSend"))
    BY <1>5 DEF MbWakeRecv, MbWakeSend, List
  <2> QED
    BY <1>0, <2>1, WakeReturnSection
<1> QED
  BY <1>1, <1>2, <1>3, <1>4, <1>5

(* rt_mb_send_wait, rt_mb_urgent, rt_mb_recv and the reset.                 *)
LEMMA MailboxSections ==
  ASSUME Waits, Typed, prio \in [Thread -> Nat], MailboxNext,
         UNCHANGED <<object, flag>>
  PROVE  AnyStep({"mbRecv", "mbSend"}) /\ Typed'
<1> DEFINE ls == {"mbRecv", "mbSend"}
<1>0. ls \in SUBSET List /\ "mbRecv" \in List /\ "mbSend" \in List /\ Limits \subseteq Limit
  BY WaitingConstants DEF List, Limit
<1>1. ASSUME NEW c \in Context, NEW v \in Mail,
             MbSend(c, v) \/ MbUrgent(c, v) \/ MbRecv(c)
      PROVE  AnyStep(ls) /\ Typed'
  BY <1>0, <1>1, WakeSection DEF MbSend, MbUrgent, MbRecv
<1>2. ASSUME NEW c \in Context, MbRecv(c) PROVE AnyStep(ls) /\ Typed'
  BY <1>0, <1>2, WakeSection DEF MbRecv
<1>3. ASSUME NEW c \in Context, MbReset(c) PROVE AnyStep(ls) /\ Typed'
  BY <1>0, <1>3, WakeAllSection DEF MbReset, Typed
<1>4. ASSUME NEW t \in Thread, NEW lim \in Limits, NEW v \in Mail,
             MbSendWait(t, v, lim)
      PROVE  AnyStep(ls) /\ Typed'
  <2>1. at[t] \notin List /\ Wait(t, "mbSend", Place("mbSend", t), lim)
    BY <1>4 DEF MbSendWait, Idle, List
  <2> QED
    BY <1>0, <2>1, WaitSection
<1>5. ASSUME NEW t \in Thread, NEW lim \in Limits, MbRecvWait(t, lim)
      PROVE  AnyStep(ls) /\ Typed'
  <2>1. at[t] \notin List /\ Wait(t, "mbRecv", Place("mbRecv", t), lim)
    BY <1>5 DEF MbRecvWait, Idle, List
  <2> QED
    BY <1>0, <2>1, WaitSection
<1> HIDE DEF ls
<1>6. ASSUME NEW t \in Thread,
             \/ MbSendRetest(t) \/ MbSendAgain(t) \/ MbStore(t) \/ MbIn(t)
             \/ MbCountUp(t) \/ MbWakeRecv(t) \/ MbRecvRetest(t) \/ MbRecvAgain(t)
             \/ MbOut(t) \/ MbCountDown(t) \/ MbWakeSend(t)
      PROVE  AnyStep(ls) /\ Typed'
  BY <1>6, MailboxUnlockedSections DEF ls
<1>7. AnyStep(ls) /\ Typed'
  BY <1>1, <1>2, <1>3, <1>4, <1>5, <1>6 DEF MailboxNext
<1> QED
  BY <1>7 DEF ls

(* rt_mq_send_wait, rt_mq_urgent, rt_mq_recv and the reset.                 *)
LEMMA QueueSections ==
  ASSUME Waits, Typed, prio \in [Thread -> Nat], MessageQueueNext,
         UNCHANGED <<object, flag>>
  PROVE  AnyStep({"mqRecv", "mqSend"}) /\ Typed'
<1> DEFINE ls == {"mqRecv", "mqSend"}
<1>0. /\ ls \in SUBSET List /\ "mqRecv" \in List /\ "mqSend" \in List
      /\ Limits \subseteq Limit
      /\ Thread \subseteq Context
  BY WaitingConstants DEF List, Limit, Context
<1>1. ASSUME NEW c \in Context,
             \/ \E v \in Message, urgent \in BOOLEAN : MqTake(c, v, urgent)
             \/ MqUnlink(c)
      PROVE  AnyStep(ls) /\ Typed'
  <2>1. /\ UNCHANGED <<waiters, stat, armed, error, limit>>
        /\ \E to : at' = [at EXCEPT ![c] = to]
    BY <1>1 DEF MqTake, MqUnlink, Goto, threadVars
  <2>2. c \in Thread => at[c] \notin List \/ stat[c] = "READY"
    BY <1>1 DEF MqTake, MqUnlink, Sender, Idle, Woken, List
  <2> QED
    BY <1>0, <2>1, <2>2, MoveSection DEF Typed
<1>2. ASSUME NEW c \in Context, MqLink(c) \/ MqLinkUrgent(c) \/ MqFree(c)
      PROVE  AnyStep(ls) /\ Typed'
  <2>1. at[c] \notin List /\ Return(c) /\ (ResumeFirst("mqRecv") \/ ResumeFirst("mqSend"))
    BY <1>2 DEF MqLink, MqLinkUrgent, MqFree, List
  <2> QED
    BY <1>0, <2>1, WakeReturnSection
<1>3. ASSUME NEW c \in Context, MqReset(c) PROVE AnyStep(ls) /\ Typed'
  BY <1>0, <1>3, WakeAllSection DEF MqReset, Typed
<1>4. ASSUME NEW t \in Thread, NEW lim \in Limits, NEW v \in Message,
             MqSendWait(t, v, lim)
      PROVE  AnyStep(ls) /\ Typed'
  <2>1. at[t] \notin List \/ stat[t] = "READY"
    BY <1>4 DEF MqSendWait, Sender, Idle, Woken, List
  <2>2. Wait(t, "mqSend", Place("mqSend", t), lim)
    BY <1>4 DEF MqSendWait
  <2> QED
    BY <1>0, <2>1, <2>2, WaitSection
<1>5. ASSUME NEW t \in Thread, NEW lim \in Limits, MqRecvWait(t, lim)
      PROVE  AnyStep(ls) /\ Typed'
  <2>1. at[t] \notin List \/ stat[t] = "READY"
    BY <1>5 DEF MqRecvWait, Idle, Woken, List
  <2>2. Wait(t, "mqRecv", Place("mqRecv", t), lim)
    BY <1>5 DEF MqRecvWait
  <2> QED
    BY <1>0, <2>1, <2>2, WaitSection
<1>6. ASSUME NEW t \in Thread, MqTooLate(t) PROVE AnyStep(ls) /\ Typed'
  <2>1. /\ UNCHANGED <<waiters, stat, armed, error>>
        /\ at' = [at EXCEPT ![t] = "idle"]
        /\ limit' \in [Thread -> Limit]
        /\ stat[t] = "READY"
    BY <1>6 DEF MqTooLate, Woken, Return, threadVars, Typed, Limit
  <2> QED
    BY <1>0, <2>1, MoveSection DEF Typed
<1> HIDE DEF ls
<1>7. AnyStep(ls) /\ Typed'
  BY <1>1, <1>2, <1>3, <1>4, <1>5, <1>6 DEF MessageQueueNext
<1> QED
  BY <1>7 DEF ls

(* rt_mp_alloc and rt_mp_free.                                              *)
LEMMA PoolSections ==
  ASSUME Waits, Typed, prio \in [Thread -> Nat], MemPoolNext,
         UNCHANGED <<object, flag>>
  PROVE  AnyStep({"pool"}) /\ Typed'
<1>0. /\ {"pool"} \in SUBSET List /\ "pool" \in List /\ Limits \subseteq Limit
      /\ Thread \subseteq Context
  BY WaitingConstants DEF List, Limit, Context
<1>1. ASSUME NEW c \in Context, MpAlloc(c) PROVE AnyStep({"pool"}) /\ Typed'
  <2>1. /\ UNCHANGED <<waiters, stat, armed, error>>
        /\ at' = [at EXCEPT ![c] = "idle"]
        /\ limit' \in [Thread -> Limit]
    BY <1>1 DEF MpAlloc, Return, threadVars, Typed, Limit
  <2>2. c \in Thread => at[c] \notin List \/ stat[c] = "READY"
    BY <1>1 DEF MpAlloc, Idle, Woken, List
  <2> QED
    BY <1>0, <2>1, <2>2, MoveSection DEF Typed
<1>2. ASSUME NEW c \in Context, NEW b \in Block, MpFree(c, b)
      PROVE  AnyStep({"pool"}) /\ Typed'
  BY <1>0, <1>2, WakeSection DEF MpFree
<1>3. ASSUME NEW t \in Thread, NEW lim \in Limits, MpWait(t, lim)
      PROVE  AnyStep({"pool"}) /\ Typed'
  <2>1. at[t] \notin List \/ stat[t] = "READY"
    BY <1>3 DEF MpWait, Idle, Woken, List
  <2>2. Wait(t, "pool", 0, lim)
    BY <1>3 DEF MpWait
  <2> QED
    BY <1>0, <2>1, <2>2, WaitSection
<1>4. ASSUME NEW t \in Thread, MpTooLate(t) PROVE AnyStep({"pool"}) /\ Typed'
  <2>1. /\ UNCHANGED <<waiters, stat, armed, error>>
        /\ at' = [at EXCEPT ![t] = "idle"]
        /\ limit' \in [Thread -> Limit]
        /\ stat[t] = "READY"
    BY <1>4 DEF MpTooLate, Woken, Return, threadVars, Typed, Limit
  <2> QED
    BY <1>0, <2>1, MoveSection DEF Typed
<1> QED
  BY <1>1, <1>2, <1>3, <1>4 DEF MemPoolNext

-----------------------------------------------------------------------------
(* Time-outs, error returns, and the beginning of objects.                  *)
LEMMA OtherSections ==
  ASSUME Waits, Typed, prio \in [Thread -> Nat],
         Create \/ \E t \in Thread : Expire(t) \/ ReturnError(t),
         NEW ls \in SUBSET List
  PROVE  AnyStep(ls) /\ Typed'
<1>1. ASSUME NEW t \in Thread, Expire(t) PROVE AnyStep(ls) /\ Typed'
  <2>1. TimeoutStep
    BY <1>1 DEF Expire, TimeoutStep
  <2>2. error' \in [Thread -> Error] /\ UNCHANGED <<object, flag, limit>>
    BY <1>1 DEF Expire, Timeout, Typed, Error
  <2> QED
    BY <2>1, <2>2 DEF Typed, AnyStep
<1>2. ASSUME NEW t \in Thread, ReturnError(t) PROVE AnyStep(ls) /\ Typed'
  <2>1. /\ UNCHANGED <<object, flag, waiters, stat, armed>>
        /\ at' = [at EXCEPT ![t] = "idle"]
        /\ error' \in [Thread -> Error] /\ limit' \in [Thread -> Limit]
        /\ stat[t] = "READY" /\ t \in Context
    BY <1>2 DEF ReturnError, GiveUp, Failed, Return, Typed, Error, Limit, Context
  <2> QED
    BY <2>1, MoveSection
<1>3. CASE Create
  <2>1. UNCHANGED <<threadVars, limit, at>> /\ object' \in DOMAIN Uses /\ flag' \in {"PRIO", "FIFO"}
    BY <1>3 DEF Create
  <2> QED
    BY <2>1, AdvanceNone DEF Typed, threadVars, MoveStep, AnyStep
<1> QED
  BY <1>1, <1>2, <1>3

-----------------------------------------------------------------------------
(* The inductive invariant of the wait lists and of priority inheritance    *)

\* Threads wait only for the object in use.
Using ==
  \A l \in List : waiters[l] # <<>> => object \in DOMAIN ListsOf /\ l \in ListsOf[object]

\* What the owner's priority is, and what the mutex remembers of it.
Inherits ==
  /\ prio \in [Thread -> Nat]
  /\ MutexTypeOK
  /\ \A t \in Thread : t # owner => prio[t] = BasePriority[t]
  /\ owner = None => waiters["mutex"] = <<>>
  /\ owner # None =>
       /\ owner \notin Members(waiters["mutex"])
       /\ original = BasePriority[owner]
       /\ object = None => prio[owner] = original
       /\ \A t \in Members(waiters["mutex"]) : prio[owner] <= prio[t]

\* Outside, or asleep, or with an error to return.
Harmless(c) ==
  /\ at[c] \notin Ending
  /\ IF c \in Isr THEN at[c] = "idle"
     ELSE at[c] = "idle" \/ stat[c] = "SUSPEND" \/ error[c] # "EOK"

\* While a thread ends the object, it is alone with it.
Ends ==
  \A c \in Context : at[c] \in Ending =>
    /\ c \in Thread
    /\ object \in DOMAIN Uses
    /\ at[c] = "wakeSecond" => object \in DOMAIN SecondList
    /\ owner # None => prio[owner] = original
    /\ \A d \in Context \ {c} : Harmless(d)

IInv == Waits /\ Typed /\ Using /\ Ordered /\ Inherits /\ Ends

\* The steps of an object's end.
EndStep(t) == Detach(t) \/ EndTest(t) \/ EndWake(t) \/ EndFail(t) \/ EndOver(t)

(* The first object is fresh and nobody waits.                              *)
LEMMA InitIInv == ASSUME Init PROVE IInv
<1>1. waiters = [l \in List |-> <<>>] /\ object \in DOMAIN Uses /\ owner = None
  BY DEF Init, WaitingInit, MutexFresh
<1>2. Waits
  BY <1>1 DEF Init, WaitingInit, Waits, Members, Distinct
<1>3. Typed
  BY DEF Init, WaitingInit, Typed, Error, Limit
<1>4. Using
  BY <1>1 DEF Using
<1>5. Ordered
  BY <1>1 DEF Ordered, InOrder
<1>6. Inherits
  <2>1. prio = BasePriority /\ MutexFresh(owner, value, hold, original)
    BY DEF Init, WaitingInit
  <2>2. MutexTypeOK
    BY <2>1, MutexConstants DEF MutexFresh, MutexTypeOK
  <2>3. waiters["mutex"] = <<>>
    BY <1>1 DEF List
  <2> QED
    BY <1>1, <2>1, <2>2, <2>3, WaitingConstants DEF Inherits
<1>7. Ends
  BY DEF Init, WaitingInit, Ends, Ending
<1> QED
  BY <1>2, <1>3, <1>4, <1>5, <1>6, <1>7 DEF IInv

(* When all are outside nobody waits.                                       *)
LEMMA IdleMeansEmpty ==
  ASSUME Waits, \A t \in Thread : at[t] = "idle", NEW l \in List
  PROVE  waiters[l] = <<>>
<1>1. waiters[l] \in Seq(Thread)
  BY DEF Waits
<1>2. ASSUME NEW t \in Members(waiters[l]) PROVE FALSE
  <2>1. t \in Thread /\ at[t] = l
    BY <1>1 DEF Waits, Members
  <2> QED
    BY <2>1 DEF List
<1> QED
  BY <1>1, <1>2, NoMembers

\* A step with the objects' own lists, as it leaves the lists.
ListsKept ==
  /\ Waits' /\ Typed' /\ Using'
  /\ \A l \in List : ByPriority(l) => InOrder(waiters'[l], prio)

(* The sections of an object act on its own lists.                          *)
LEMMA UseKeepsLists ==
  ASSUME IInv, NEW ls \in SUBSET List, AnyStep(ls), Typed', object' = object,
         ls = {} \/ (object \in DOMAIN ListsOf /\ ls = ListsOf[object])
  PROVE  ListsKept
<1>1. Waits' /\ \A l \in List : ByPriority(l) => InOrder(waiters'[l], prio)
  BY StepKeepsWaits, StepKeepsOrder DEF IInv, Inherits
<1>2. ASSUME NEW l \in List, waiters'[l] # <<>>
      PROVE  object' \in DOMAIN ListsOf /\ l \in ListsOf[object']
  <2>1. l \in ls \/ waiters[l] # <<>>
    BY <1>2, StepKeepsEmpty DEF IInv
  <2> QED
    BY <2>1 DEF IInv, Using
<1> QED
  BY <1>1, <1>2 DEF ListsKept, Using

(* An object that ends has the list whose waiters are woken.                *)
LEMMA EndHasList ==
  ASSUME IInv, NEW t \in Thread, at[t] \in {"wakeFirst", "wakeSecond"}
  PROVE  EndList(t) \in List /\ object \in DOMAIN Uses
<1>1. t \in Context /\ at[t] \in Ending
  BY DEF Context, Ending
<1>2. object \in DOMAIN ListsOf /\ object \in DOMAIN Uses
  BY <1>1, IpcConstants DEF IInv, Ends
<1>3. at[t] = "wakeSecond" => object \in DOMAIN SecondList
  BY <1>1 DEF IInv, Ends
<1> QED
  BY <1>2, <1>3 DEF EndList, FirstList, SecondList, ListsOf, List

(* The end of an object takes waiters out of lists, never into one.         *)
LEMMA EndSections ==
  ASSUME IInv, NEW t \in Thread, EndStep(t), NEW ls \in SUBSET List
  PROVE  /\ AnyStep(ls) /\ Typed'
         /\ \A l \in List : Members(waiters'[l]) \subseteq Members(waiters[l])
<1>0. Waits /\ Typed /\ t \in Context
  BY DEF IInv, Context
<1>1. ASSUME Detach(t) \/ EndTest(t) \/ EndFail(t)
      PROVE  AnyStep(ls) /\ Typed' /\ waiters' = waiters
  <2>1. /\ UNCHANGED <<object, flag, waiters, stat, armed, error, limit>>
        /\ \E to \in {"end", "wakeFirst", "wakeSecond", "halt"} : at' = [at EXCEPT ![t] = to]
        /\ at[t] \notin List
    BY <1>1 DEF Detach, EndTest, EndFail, Goto, threadVars, Idle, List
  <2>2. PICK to : at' = [at EXCEPT ![t] = to]
    BY <2>1
  <2>3. error' \in [Thread -> Error] /\ limit' \in [Thread -> Limit]
    BY <1>0, <2>1 DEF Typed
  <2> QED
    BY <1>0, <2>1, <2>2, <2>3, MoveSection
<1>2. CASE EndOver(t)
  <2>1. /\ UNCHANGED <<flag, waiters, stat, armed, error>>
        /\ at' = [at EXCEPT ![t] = "idle"] /\ object' = None
        /\ at[t] \notin List /\ limit' \in [Thread -> Limit]
    BY <1>0, <1>2 DEF EndOver, Return, threadVars, List, Typed, Limit
  <2>2. Advance
    BY <1>0, <2>1, AdvanceOne
  <2> QED
    BY <1>0, <2>1, <2>2 DEF MoveStep, AnyStep, Typed
<1>3. CASE EndWake(t)
  <2> DEFINE k == EndList(t)
             h == Head(waiters[k])
  <2>1. k \in List
    BY <1>3, EndHasList DEF EndWake
  <2>2. /\ waiters[k] # <<>> /\ Resume(k, {h}, "ERROR")
        /\ at' = [at EXCEPT ![t] = "end"] /\ UNCHANGED <<object, flag, limit>>
        /\ at[t] \notin List
    BY <1>3 DEF EndWake, Goto, List
  <2>3. waiters[k] \in Seq(Thread) /\ Distinct(waiters[k])
    BY <1>0, <2>1 DEF Waits
  <2>4. h \in Members(waiters[k])
    BY <2>2, <2>3 DEF Members
  <2>5. Advance
    BY <1>0, <2>2, AdvanceOne
  <2>6. error' = [u \in Thread |-> IF u \in {h} THEN "ERROR" ELSE error[u]]
    BY <2>2 DEF Resume
  <2>7. error' \in [Thread -> Error]
    BY <1>0, <2>6 DEF Typed, Error
  <2>8. waiters' = [waiters EXCEPT ![k] = UnlinkAll(waiters[k], {h})]
    BY <2>2 DEF Resume
  <2>9. Members(UnlinkAll(waiters[k], {h})) \subseteq Members(waiters[k])
    BY <2>3, UnlinkAllProperties
  <2>10. \A l \in List : Members(waiters'[l]) \subseteq Members(waiters[l])
    BY <1>0, <2>1, <2>8, <2>9 DEF Waits
  <2> HIDE DEF k, h
  <2>11. {h} \in SUBSET Members(waiters[k])
    BY <2>4
  <2>12. ResumeStep
    BY <2>1, <2>2, <2>5, <2>11 DEF ResumeStep
  <2> QED
    BY <1>0, <2>2, <2>7, <2>10, <2>12 DEF AnyStep, Typed
<1> QED
  BY <1>1, <1>2, <1>3 DEF EndStep

(* When the end is over nobody waits.                                       *)
LEMMA EndEmpties ==
  ASSUME IInv, NEW t \in Thread, EndOver(t)
  PROVE  \A l \in List : waiters'[l] = <<>>
BY DEF EndOver, threadVars, IInv, Using

(* Every step keeps the lists exact, and those by priority in order.        *)
LEMMA NextKeepsLists == ASSUME IInv, Next PROVE ListsKept
<1>0. Waits /\ Typed /\ prio \in [Thread -> Nat]
  BY DEF IInv, Inherits
<1>1. CASE UseMutex /\ UNCHANGED <<object, flag>>
  <2>1. AnyStep({"mutex"}) /\ Typed'
    BY <1>0, <1>1, MutexSections DEF UseMutex
  <2> QED
    BY <1>1, <2>1, UseKeepsLists DEF UseMutex, ListsOf, List
<1>2. CASE UseEvent /\ UNCHANGED <<object, flag>>
  <2>1. AnyStep({"event"}) /\ Typed'
    BY <1>0, <1>2, EventSections DEF UseEvent
  <2> QED
    BY <1>2, <2>1, UseKeepsLists DEF UseEvent, ListsOf, List
<1>3. CASE UseMailbox /\ UNCHANGED <<object, flag>>
  <2>1. AnyStep({"mbRecv", "mbSend"}) /\ Typed'
    BY <1>0, <1>3, MailboxSections DEF UseMailbox, MailboxStep
  <2> QED
    BY <1>3, <2>1, UseKeepsLists DEF UseMailbox, ListsOf, List
<1>4. CASE UseQueue /\ UNCHANGED <<object, flag>>
  <2>1. AnyStep({"mqRecv", "mqSend"}) /\ Typed'
    BY <1>0, <1>4, QueueSections DEF UseQueue
  <2> QED
    BY <1>4, <2>1, UseKeepsLists DEF UseQueue, ListsOf, List
<1>5. CASE UsePool /\ UNCHANGED <<object, flag>>
  <2>1. AnyStep({"pool"}) /\ Typed'
    BY <1>0, <1>5, PoolSections DEF UsePool
  <2> QED
    BY <1>5, <2>1, UseKeepsLists DEF UsePool, ListsOf, List
<1>6. ASSUME NEW t \in Thread, Expire(t) \/ ReturnError(t) PROVE ListsKept
  <2>1. AnyStep({}) /\ Typed' /\ {} \in SUBSET List
    BY <1>0, <1>6, OtherSections
  <2>2. object' = object
    BY <1>6 DEF Expire, ReturnError
  <2> QED
    BY <2>1, <2>2, UseKeepsLists
<1>7. ASSUME NEW t \in Thread, EndStep(t) PROVE ListsKept
  <2>1. AnyStep({}) /\ Typed' /\ {} \in SUBSET List
    BY <1>7, EndSections
  <2>2. CASE EndOver(t)
    <3>1. Waits'
      BY <1>0, <2>1, StepKeepsWaits
    <3> QED
      BY <2>1, <2>2, <3>1, EndEmpties DEF ListsKept, Using, InOrder
  <2>3. CASE ~EndOver(t)
    <3>1. object' = object
      BY <1>7, <2>3 DEF EndStep, Detach, EndTest, EndWake, EndFail
    <3> QED
      BY <2>1, <3>1, UseKeepsLists
  <2> QED
    BY <2>2, <2>3
<1>8. CASE Create
  <2>1. AnyStep({}) /\ Typed' /\ {} \in SUBSET List
    BY <1>0, <1>8, OtherSections
  <2>2. Waits'
    BY <1>0, <2>1, StepKeepsWaits
  <2>3. \A l \in List : waiters'[l] = <<>>
    BY <1>0, <1>8, IdleMeansEmpty DEF Create, threadVars
  <2> QED
    BY <2>1, <2>2, <2>3 DEF ListsKept, Using, InOrder
<1>9. CASE UNCHANGED vars
  <2>1. UNCHANGED <<object, flag, threadVars, limit, at>>
    BY <1>9 DEF vars
  <2>2. AnyStep({}) /\ Typed' /\ {} \in SUBSET List
    BY <1>0, <2>1, StaySection
  <2> QED
    BY <2>1, <2>2, UseKeepsLists
<1> QED
  BY <1>1, <1>2, <1>3, <1>4, <1>5, <1>6, <1>7, <1>8, <1>9 DEF Next, EndStep

-----------------------------------------------------------------------------
(* Priority inheritance *)

(* What a mutex call does to priorities: only the owner's changes, and the  *)
(* one that owned the mutex is in its list neither before nor behind.       *)
LEMMA MutexInherits ==
  ASSUME IInv, UseMutex, UNCHANGED <<object, flag>>, ListsKept
  PROVE  /\ Inherits'
         /\ \A u \in Thread : prio'[u] # prio[u] =>
              u = owner /\ u \notin Members(waiters'["mutex"])
<1> DEFINE W == waiters["mutex"]
           Goal == /\ Inherits'
                   /\ \A u \in Thread : prio'[u] # prio[u] =>
                        u = owner /\ u \notin Members(waiters'["mutex"])
<1>1. /\ "mutex" \in List
      /\ W \in Seq(Thread) /\ Distinct(W)
      /\ waiters'["mutex"] \in Seq(Thread)
      /\ Members(W) \subseteq Thread
  BY DEF List, IInv, Waits, ListsKept, Members
<1>2. /\ prio \in [Thread -> Nat]
      /\ owner \in Thread \union {None} /\ value \in 0 .. 1 /\ hold \in 0 .. HoldMax
      /\ (owner = None) <=> (value = 1)
      /\ (owner = None) <=> (hold = 0)
      /\ None \notin Thread
      /\ HoldMax \in Nat \ {0}
      /\ BasePriority \in [Thread -> Nat]
  BY WaitingConstants, MutexConstants DEF IInv, Inherits, MutexTypeOK
<1>3. /\ original \in Nat \union {None}
      /\ \A t \in Thread : t # owner => prio[t] = BasePriority[t]
      /\ owner = None => W = <<>>
      /\ owner # None => /\ owner \notin Members(W)
                         /\ original = BasePriority[owner]
                         /\ \A t \in Members(W) : prio[owner] <= prio[t]
  BY DEF IInv, Inherits, MutexTypeOK
<1>4. ASSUME NEW t \in Thread, MutexTake(t) PROVE Goal
  <2>1. /\ owner = None /\ owner' = t /\ value' = 0 /\ hold' = 1
        /\ original' = BasePriority[t] /\ original' \in Nat
        /\ UNCHANGED <<waiters, prio>>
    BY <1>2, <1>3, <1>4 DEF MutexTake, threadVars
  <2>2. Members(W) = {}
    BY <1>1, <1>3, <2>1, NoMembers
  <2>3. MutexTypeOK'
    BY <1>2, <2>1 DEF MutexTypeOK
  <2>4. object' # None
    BY <1>4 DEF MutexTake, Idle
  <2> QED
    BY <1>2, <1>3, <2>1, <2>2, <2>3, <2>4 DEF Inherits
<1>5. ASSUME NEW t \in Thread, MutexTakeAgain(t) \/ MutexReleaseOne(t) PROVE Goal
  <2>1. /\ owner = t /\ UNCHANGED <<owner, value, original, waiters, prio>>
        /\ hold' \in 0 .. HoldMax /\ hold' # 0 /\ hold # 0
    BY <1>2, <1>5 DEF MutexTakeAgain, MutexReleaseOne, threadVars
  <2>2. MutexTypeOK'
    BY <1>2, <1>3, <2>1 DEF MutexTypeOK
  <2>3. object' # None
    BY <1>5 DEF MutexTakeAgain, MutexReleaseOne, Idle
  <2> QED
    BY <1>2, <1>3, <2>1, <2>2, <2>3 DEF Inherits
<1>6. ASSUME NEW t \in Thread, NEW lim \in Limits, MutexBlock(t, lim) PROVE Goal
  <2>0. /\ owner # t /\ value = 0 /\ object' # None /\ at[t] = "idle"
        /\ UNCHANGED <<owner, value, hold, original>>
    BY <1>6 DEF MutexBlock, mutexVars, Idle
  <2>1. owner \in Thread /\ t \notin Members(W)
    <3>1. \A u \in Members(W) : at[u] = "mutex"
      BY <1>1 DEF IInv, Waits
    <3> QED
      BY <1>2, <2>0, <3>1
  <2>2. prio' = IF prio[t] < prio[owner] THEN [prio EXCEPT ![owner] = prio[t]] ELSE prio
    BY <1>6 DEF MutexBlock, ChangePriority
  <2>3. /\ prio' \in [Thread -> Nat]
        /\ \A u \in Thread : u # owner => prio'[u] = prio[u]
        /\ prio'[owner] <= prio[owner] /\ prio'[owner] <= prio[t]
    BY <1>2, <2>0, <2>1, <2>2
  <2>4. waiters'["mutex"] = LinkBehind(W, Place("mutex", t), t)
    BY <1>1, <1>6 DEF MutexBlock, Wait, IInv, Waits
  <2>5. Place("mutex", t) \in 0 .. Len(W)
    BY <1>1, <1>2, PlaceInList DEF IInv
  <2>6. Members(waiters'["mutex"]) = Members(W) \union {t}
    BY <1>1, <2>4, <2>5, LinkBehindMembers
  <2>7. MutexTypeOK'
    BY <1>2, <1>3, <2>0, <2>1 DEF MutexTypeOK
  <2>8. \A u \in Members(waiters'["mutex"]) : u # owner /\ prio'[owner] <= prio'[u]
    BY <1>1, <1>2, <1>3, <2>0, <2>1, <2>3, <2>6
  <2> QED
    BY <1>2, <1>3, <2>0, <2>1, <2>3, <2>7, <2>8 DEF Inherits
<1>7. ASSUME NEW t \in Thread, MutexTaken(t) PROVE Goal
  <2>1. UNCHANGED <<owner, value, hold, original, waiters, prio>> /\ object' = object
    BY <1>7 DEF MutexTaken, mutexVars, threadVars
  <2>2. Inherits' = Inherits
    BY <2>1 DEF Inherits, MutexTypeOK
  <2> QED
    BY <2>1, <2>2 DEF IInv
<1>8. ASSUME NEW t \in Thread, MutexHandOver(t) PROVE Goal
  <2> DEFINE h == Head(W)
  <2>1. /\ owner = t /\ W # <<>> /\ ResumeFirst("mutex")
        /\ owner' = h /\ original' = prio[h]
        /\ prio' = [prio EXCEPT ![t] = original]
        /\ UNCHANGED <<value, hold>>
        /\ object' # None
    BY <1>8 DEF MutexHandOver, ChangePriority, Idle
  <2>2. h = W[1] /\ 1 \in DOMAIN W /\ h \in Members(W) /\ h \in Thread /\ h # t
    BY <1>1, <1>2, <1>3, <2>1 DEF Members
  <2>3. Resume("mutex", {h}, error[h])
    BY <2>1 DEF ResumeFirst
  <2>4. waiters'["mutex"] = UnlinkAll(W, {h})
    BY <1>1, <2>3 DEF Resume, IInv, Waits
  <2>5. Members(waiters'["mutex"]) = Members(W) \ {h}
    BY <1>1, <2>4, UnlinkAllProperties
  <2>6. /\ prio' \in [Thread -> Nat]
        /\ prio'[t] = BasePriority[t]
        /\ \A u \in Thread : u # t => prio'[u] = BasePriority[u] /\ prio'[u] = prio[u]
    BY <1>2, <1>3, <2>1
  <2>7. InOrder(W, prio)
    BY <1>1 DEF IInv, Ordered, ByPriority
  <2>8. \A u \in Members(W) : u # h => prio[h] <= prio[u]
    <3>1. ASSUME NEW i \in DOMAIN W, W[i] # h PROVE prio[h] <= prio[W[i]]
      <4>1. 1 < i
        BY <1>1, <2>2, <3>1
      <4> QED
        BY <2>2, <2>7, <4>1 DEF InOrder
    <3> QED
      BY <3>1 DEF Members
  <2> HIDE DEF h
  <2>9. MutexTypeOK'
    BY <1>2, <2>1, <2>2 DEF MutexTypeOK
  <2>10. \A u \in Members(waiters'["mutex"]) : u # h /\ u # t /\ prio'[h] <= prio'[u]
    BY <1>1, <1>2, <1>3, <2>1, <2>2, <2>5, <2>6, <2>8
  <2>11. original' = BasePriority[h]
    BY <1>3, <2>1, <2>2
  <2> QED
    BY <1>2, <2>1, <2>2, <2>6, <2>9, <2>10, <2>11 DEF Inherits
<1>9. ASSUME NEW t \in Thread, MutexFree(t) PROVE Goal
  <2>1. /\ owner = t /\ W = <<>>
        /\ owner' = None /\ original' = None /\ hold' = 0 /\ value' = value + 1
        /\ prio' = [prio EXCEPT ![t] = original]
        /\ waiters' = waiters
    BY <1>9 DEF MutexFree, ChangePriority, threadVars
  <2>2. /\ prio' \in [Thread -> Nat]
        /\ \A u \in Thread : prio'[u] = BasePriority[u]
        /\ \A u \in Thread : u # t => prio'[u] = prio[u]
    BY <1>2, <1>3, <2>1
  <2>3. MutexTypeOK'
    BY <1>2, <2>1 DEF MutexTypeOK
  <2>4. Members(W) = {}
    BY <1>1, <2>1, NoMembers
  <2> QED
    BY <2>1, <2>2, <2>3, <2>4 DEF Inherits
<1> HIDE DEF Goal
<1>10. Goal
  BY <1>4, <1>5, <1>6, <1>7, <1>8, <1>9 DEF UseMutex, MutexNext
<1> QED
  BY <1>10 DEF Goal

(* Whatever else happens leaves mutex and priorities alone, and nobody new  *)
(* waits for the mutex.                                                     *)
LEMMA OthersInherit ==
  ASSUME IInv, UNCHANGED <<prio, mutexVars>>,
         Members(waiters'["mutex"]) \subseteq Members(waiters["mutex"]),
         waiters["mutex"] = <<>> => waiters'["mutex"] = <<>>,
         owner # None /\ object' = None => prio[owner] = original
  PROVE  Inherits'
<1>1. UNCHANGED <<owner, value, hold, original>>
  BY DEF mutexVars
<1> QED
  BY <1>1 DEF IInv, Inherits, MutexTypeOK

(* Priorities are inherited and given back over every step.                 *)
LEMMA NextInherits ==
  ASSUME IInv, Next, ListsKept
  PROVE  /\ Inherits'
         /\ \A l \in List, u \in Thread :
              prio'[u] # prio[u] => u \notin Members(waiters'[l])
<1> DEFINE Same == \A l \in List, u \in Thread :
                     prio'[u] # prio[u] => u \notin Members(waiters'[l])
<1>0. "mutex" \in List /\ waiters["mutex"] \in Seq(Thread) /\ Distinct(waiters["mutex"])
  BY DEF List, IInv, Waits
<1>1. CASE UseMutex /\ UNCHANGED <<object, flag>>
  <2>1. /\ Inherits'
        /\ \A u \in Thread : prio'[u] # prio[u] => u \notin Members(waiters'["mutex"])
    BY <1>1, MutexInherits
  <2>2. ASSUME NEW l \in List, l # "mutex" PROVE Members(waiters'[l]) = {}
    <3>1. waiters'[l] = <<>>
      BY <1>1, <2>2 DEF ListsKept, Using, UseMutex, ListsOf
    <3> QED
      BY <3>1 DEF Members
  <2> QED
    BY <2>1, <2>2
<1>2. ASSUME \/ UseEvent /\ UNCHANGED <<object, flag>>
             \/ UseMailbox /\ UNCHANGED <<object, flag>>
             \/ UseQueue /\ UNCHANGED <<object, flag>>
             \/ UsePool /\ UNCHANGED <<object, flag>>
      PROVE  Inherits' /\ Same
  <2>1. /\ UNCHANGED <<object, prio, mutexVars>>
        /\ object \in {"event", "mailbox", "queue", "pool"}
    BY <1>2 DEF UseEvent, UseMailbox, UseQueue, UsePool
  <2>2. waiters'["mutex"] = <<>>
    BY <1>0, <2>1 DEF ListsKept, Using, ListsOf
  <2>3. Members(waiters'["mutex"]) = {}
    BY <2>2 DEF Members
  <2>4. object' = None => (owner # None => prio[owner] = original)
    BY <2>1 DEF IInv, Inherits
  <2> QED
    BY <2>1, <2>2, <2>3, <2>4, OthersInherit
<1>3. ASSUME NEW t \in Thread, Expire(t) PROVE Inherits' /\ Same
  <2>1. /\ UNCHANGED <<object, prio, mutexVars>>
        /\ waiters'["mutex"] = Unlink(waiters["mutex"], t)
    BY <1>0, <1>3 DEF Expire, objectVars, Timeout
  <2>2. Members(waiters'["mutex"]) \subseteq Members(waiters["mutex"])
    BY <1>0, <2>1, UnlinkProperties
  <2>3. waiters["mutex"] = <<>> => waiters'["mutex"] = <<>>
    BY <2>1 DEF Unlink
  <2> QED
    BY <2>1, <2>2, <2>3, OthersInherit DEF IInv, Inherits
<1>4. ASSUME NEW t \in Thread, ReturnError(t) PROVE Inherits' /\ Same
  <2>1. UNCHANGED <<object, prio, mutexVars, waiters>>
    BY <1>4 DEF ReturnError, GiveUp
  <2> QED
    BY <2>1, OthersInherit DEF IInv, Inherits
<1>5. ASSUME NEW t \in Thread, EndStep(t) PROVE Inherits' /\ Same
  <2>1. UNCHANGED <<prio, mutexVars>>
    BY <1>5 DEF EndStep, Detach, EndTest, EndWake, EndFail, EndOver, objectVars
  <2>2. Members(waiters'["mutex"]) \subseteq Members(waiters["mutex"])
    BY <1>0, <1>5, EndSections
  <2>3. waiters["mutex"] = <<>> => waiters'["mutex"] = <<>>
    <3>1. waiters'["mutex"] \in Seq(Thread)
      BY <1>0 DEF ListsKept, Waits
    <3>2. waiters["mutex"] = <<>> => Members(waiters["mutex"]) = {}
      BY DEF Members
    <3> QED
      BY <2>2, <3>1, <3>2, NoMembers
  <2>4. owner # None /\ object' = None => prio[owner] = original
    <3>1. CASE EndOver(t)
      <4>1. t \in Context /\ at[t] \in Ending
        BY <3>1 DEF EndOver, Ending, Context
      <4> QED
        BY <4>1 DEF IInv, Ends
    <3>2. CASE ~EndOver(t)
      <4>1. object' = object
        BY <1>5, <3>2 DEF EndStep, Detach, EndTest, EndWake, EndFail
      <4> QED
        BY <4>1 DEF IInv, Inherits
    <3> QED
      BY <3>1, <3>2
  <2> QED
    BY <2>1, <2>2, <2>3, <2>4, OthersInherit
<1>6. CASE Create
  <2>1. UNCHANGED <<waiters, prio>> /\ MutexFresh(owner', value', hold', original')
        /\ object = None
    BY <1>6 DEF Create, threadVars
  <2>2. waiters["mutex"] = <<>>
    BY <1>0, <1>6, IdleMeansEmpty DEF Create, IInv
  <2>3. ASSUME NEW t \in Thread PROVE prio[t] = BasePriority[t]
    <3>1. CASE t # owner
      BY <3>1 DEF IInv, Inherits
    <3>2. CASE t = owner
      <4>1. owner # None
        BY <3>2, WaitingConstants
      <4> QED
        BY <2>1, <3>2, <4>1 DEF IInv, Inherits
    <3> QED
      BY <3>1, <3>2
  <2>4. MutexTypeOK'
    BY <2>1, MutexConstants DEF MutexFresh, MutexTypeOK
  <2>5. owner' = None
    BY <2>1 DEF MutexFresh
  <2> QED
    BY <2>1, <2>2, <2>3, <2>4, <2>5 DEF IInv, Inherits
<1>7. CASE UNCHANGED vars
  <2>1. UNCHANGED <<object, prio, mutexVars, waiters>>
    BY <1>7 DEF vars, threadVars, objectVars
  <2> QED
    BY <2>1, OthersInherit DEF IInv, Inherits
<1> HIDE DEF Same
<1>8. Inherits' /\ Same
  BY <1>1, <1>2, <1>3, <1>4, <1>5, <1>6, <1>7 DEF Next, Same, EndStep
<1> QED
  BY <1>8 DEF Same

\* Where a call is between its sections, and outside.
InCall == {"idle", "mqFill", "mqUrgent", "mqCopy"} \union Unlocked

(* A context that goes on inside a call does not end the object.            *)
LEMMA OpenMove ==
  ASSUME Waits, Open,
         at' = at \/ \E c \in Context, to \in List \union InCall : at' = [at EXCEPT ![c] = to]
  PROVE  Open'
<1>1. \A to \in List \union InCall : to \notin Ending
  BY DEF List, InCall, Unlocked, Ending
<1> QED
  BY <1>1 DEF Waits, Open

(* No call starts the end of the object.                                    *)
LEMMA UseStaysOpen ==
  ASSUME Waits, Open, UseMutex \/ UseEvent \/ UseMailbox \/ UseQueue \/ UsePool
  PROVE  Open'
<1> DEFINE Moves == at' = at \/ \E c \in Context, to \in List \union InCall :
                                  at' = [at EXCEPT ![c] = to]
<1>0. Thread \subseteq Context
  BY DEF Context
<1>1. ASSUME MutexNext PROVE Moves
  BY <1>0, <1>1 DEF MutexNext, MutexTake, MutexTakeAgain, MutexBlock, MutexTaken,
     MutexReleaseOne, MutexHandOver, MutexFree, Wait, Return, List, InCall
<1>2. ASSUME EventNext PROVE Moves
  <2>1. ASSUME NEW c \in Context, NEW sent, EventSend(c, sent) \/ EventReset(c)
        PROVE  at' = at
    BY <2>1 DEF EventSend, EventReset
  <2>2. ASSUME NEW t \in Thread, NEW want, NEW how, EventRecv(t, want, how)
        PROVE  at' = at
    BY <2>2 DEF EventRecv
  <2>3. ASSUME NEW t \in Thread, NEW want, NEW how, NEW lim, EventWait(t, want, how, lim)
        PROVE  Moves
    BY <1>0, <2>3 DEF EventWait, Wait, List
  <2>4. ASSUME NEW t \in Thread, EventReturn(t) PROVE Moves
    BY <1>0, <2>4 DEF EventReturn, Return, InCall
  <2> HIDE DEF Moves
  <2>5. at' = at => Moves
    BY DEF Moves
  <2> QED
    BY <1>2, <2>1, <2>2, <2>3, <2>4, <2>5 DEF EventNext
<1>3. ASSUME MailboxNext PROVE Moves
  <2>1. ASSUME NEW c \in Context, NEW v, MbSend(c, v) \/ MbUrgent(c, v) \/ MbRecv(c) \/ MbReset(c)
        PROVE  at' = at
    BY <2>1 DEF MbSend, MbUrgent, MbRecv, MbReset
  <2>2. ASSUME NEW t \in Thread, NEW lim, NEW v, MbSendWait(t, v, lim) \/ MbRecvWait(t, lim)
        PROVE  Moves
    BY <1>0, <2>2 DEF MbSendWait, MbRecvWait, Wait, List
  <2>3. ASSUME NEW t \in Thread,
               \/ MbSendRetest(t) \/ MbSendAgain(t) \/ MbStore(t) \/ MbIn(t) \/ MbCountUp(t)
               \/ MbWakeRecv(t)
        PROVE  Moves
    BY <1>0, <2>3 DEF MbSendRetest, MbSendAgain, MbStore, MbIn, MbCountUp, MbWakeRecv,
       Goto, Wait, Return, List, InCall, Unlocked
  <2>4. ASSUME NEW t \in Thread,
               \/ MbRecvRetest(t) \/ MbRecvAgain(t) \/ MbOut(t) \/ MbCountDown(t)
               \/ MbWakeSend(t)
        PROVE  Moves
    BY <1>0, <2>4 DEF MbRecvRetest, MbRecvAgain, MbOut, MbCountDown, MbWakeSend,
       Goto, Wait, Return, List, InCall, Unlocked
  <2> HIDE DEF Moves
  <2>5. at' = at => Moves
    BY DEF Moves
  <2> QED
    BY <1>3, <2>1, <2>2, <2>3, <2>4, <2>5 DEF MailboxNext
<1>4. ASSUME MessageQueueNext PROVE Moves
  BY <1>0, <1>4 DEF MessageQueueNext, MqTake, MqLink, MqLinkUrgent, MqUnlink, MqFree,
     MqReset, MqSendWait, MqRecvWait, MqTooLate, Goto, Wait, Return, List, InCall
<1>5. ASSUME MemPoolNext PROVE Moves
  <2>1. ASSUME NEW c \in Context, NEW b, MpFree(c, b) PROVE at' = at
    BY <2>1 DEF MpFree
  <2>2. ASSUME NEW c \in Context, MpAlloc(c) \/ MpTooLate(c) PROVE Moves
    BY <2>2 DEF MpAlloc, MpTooLate, Return, InCall
  <2>3. ASSUME NEW t \in Thread, NEW lim, MpWait(t, lim) PROVE Moves
    BY <1>0, <2>3 DEF MpWait, Wait, List
  <2> HIDE DEF Moves
  <2>4. at' = at => Moves
    BY DEF Moves
  <2> QED
    BY <1>0, <1>5, <2>1, <2>2, <2>3, <2>4 DEF MemPoolNext
<1> HIDE DEF Moves
<1>6. Moves
  BY <1>1, <1>2, <1>3, <1>4, <1>5 DEF UseMutex, UseEvent, UseMailbox, MailboxStep, UseQueue,
     UsePool
<1> QED
  BY <1>6, OpenMove DEF Moves

(* Nobody disturbs the thread that ends the object.                         *)
LEMMA NextKeepsEnds == ASSUME IInv, Next PROVE Ends'
<1>0. Waits /\ Ends /\ error \in [Thread -> Error] /\ Thread \subseteq Context
      /\ at = [c \in Context |-> at[c]] /\ Thread \intersect Isr = {}
  BY WaitingConstants DEF IInv, Typed, Context, Waits
<1>1. ASSUME UseMutex \/ UseEvent \/ UseMailbox \/ UseQueue \/ UsePool, Open PROVE Ends'
  BY <1>0, <1>1, UseStaysOpen DEF Open, Ends
<1>2. ASSUME NEW t \in Thread, Expire(t) PROVE Ends'
  <2>1. /\ UNCHANGED <<object, prio, owner, original, at>>
        /\ stat' = [stat EXCEPT ![t] = "READY"]
        /\ error' = [error EXCEPT ![t] = "ETIMEOUT"]
    BY <1>2 DEF Expire, Timeout, objectVars, mutexVars
  <2>2. \A d \in Context : Harmless(d) => Harmless(d)'
    BY <1>0, <2>1 DEF Harmless, Waits, Context
  <2> QED
    BY <1>0, <2>1, <2>2 DEF Ends
<1>3. ASSUME NEW t \in Thread, ReturnError(t) PROVE Ends'
  <2>1. /\ UNCHANGED <<object, prio, owner, original, stat>>
        /\ at' = [at EXCEPT ![t] = "idle"]
        /\ error' = [error EXCEPT ![t] = "EOK"]
    BY <1>3 DEF ReturnError, GiveUp, Return, mutexVars
  <2>2. \A d \in Context : Harmless(d) => Harmless(d)'
    BY <1>0, <2>1 DEF Harmless, Context, Ending
  <2>3. \A c \in Context : at'[c] \in Ending => at'[c] = at[c]
    BY <1>0, <2>1 DEF Ending
  <2> QED
    BY <1>0, <2>1, <2>2, <2>3 DEF Ends
<1>4. ASSUME NEW t \in Thread, Detach(t) PROVE Ends'
  <2>1. /\ Open /\ NoCallInside /\ object \in DOMAIN Uses
        /\ owner # None => prio[owner] = original
        /\ UNCHANGED <<object, prio, owner, original, stat, error>>
        /\ at' = [at EXCEPT ![t] = "end"]
    BY <1>4 DEF Detach, Idle, Goto, threadVars, objectVars, mutexVars, IInv, Typed
  <2>2. \A d \in Context \ {t} : Harmless(d)'
    BY <1>0, <2>1 DEF Harmless, NoCallInside, Open, Context
  <2>3. \A c \in Context : at'[c] \in Ending => c = t
    BY <1>0, <2>1 DEF Open
  <2> QED
    BY <1>0, <2>1, <2>2, <2>3 DEF Ends
<1>5. ASSUME NEW t \in Thread, EndTest(t) \/ EndWake(t) \/ EndFail(t) \/ EndOver(t) PROVE Ends'
  <2>1. at[t] \in Ending /\ t \in Context
    BY <1>0, <1>5 DEF EndTest, EndWake, EndFail, EndOver, Ending
  <2>2. /\ object \in DOMAIN Uses
        /\ owner # None => prio[owner] = original
        /\ \A d \in Context \ {t} : Harmless(d)
    BY <1>0, <2>1 DEF Ends
  <2>3. \E to : at' = [at EXCEPT ![t] = to]
    BY <1>5 DEF EndTest, EndWake, EndFail, EndOver, Goto, Return
  <2>4. \A d \in Context \ {t} : at'[d] = at[d]
    BY <1>0, <2>3
  <2>5. UNCHANGED <<prio, owner, original>>
    BY <1>5 DEF EndTest, EndWake, EndFail, EndOver, objectVars, mutexVars
  <2>6. \A d \in Context \ {t} : Harmless(d)'
    <3>1. CASE EndWake(t)
      <4>1. \A u \in Thread : \/ stat'[u] = stat[u] /\ error'[u] = error[u]
                             \/ error'[u] = "ERROR"
        BY <3>1 DEF EndWake, Resume
      <4> QED
        BY <2>2, <2>4, <4>1 DEF Harmless, Context
    <3>2. CASE ~EndWake(t)
      <4>1. UNCHANGED <<stat, error>>
        BY <1>5, <3>2 DEF EndTest, EndFail, EndOver, threadVars
      <4> QED
        BY <2>2, <2>4, <4>1 DEF Harmless, Context
    <3> QED
      BY <3>1, <3>2
  <2>7. \A c \in Context : at'[c] \in Ending => c = t
    BY <2>6 DEF Harmless
  <2>8. at'[t] \in Ending => object' = object
    BY <1>0, <1>5 DEF EndTest, EndWake, EndFail, EndOver, Return, Ending
  <2>9. at'[t] = "wakeSecond" => object \in DOMAIN SecondList
    BY <1>0, <1>5 DEF EndTest, EndWake, EndFail, EndOver, Return, Goto
  <2> QED
    BY <2>2, <2>5, <2>6, <2>7, <2>8, <2>9 DEF Ends
<1>6. CASE Create
  <2>1. \A c \in Thread : at'[c] = "idle"
    BY <1>6 DEF Create
  <2>2. \A c \in Context : at[c] \in Ending => c \in Thread
    BY <1>0 DEF Ends
  <2>3. at' = at
    BY <1>6 DEF Create
  <2> QED
    BY <2>1, <2>2, <2>3 DEF Ends, Ending
<1>7. CASE UNCHANGED vars
  BY <1>0, <1>7 DEF vars, objectVars, mutexVars, threadVars, Ends, Harmless
<1> QED
  BY <1>1, <1>2, <1>3, <1>4, <1>5, <1>6, <1>7 DEF Next

(* The invariant is inductive.                                              *)
LEMMA NextKeepsIInv == ASSUME IInv, Next PROVE IInv'
<1>1. ListsKept
  BY NextKeepsLists
<1>2. /\ Inherits'
      /\ \A l \in List, u \in Thread :
           prio'[u] # prio[u] => u \notin Members(waiters'[l])
  BY <1>1, NextInherits
<1>3. ASSUME NEW l \in List, ByPriority(l)' PROVE InOrder(waiters'[l], prio')
  <2>1. CASE flag' = flag
    <3>1. InOrder(waiters'[l], prio)
      BY <1>1, <1>3, <2>1 DEF ListsKept, ByPriority
    <3>2. waiters'[l] \in Seq(Thread)
      BY <1>1 DEF ListsKept, Waits
    <3>3. Members(waiters'[l]) \subseteq Thread
      BY <3>2 DEF Members
    <3>4. \A u \in Members(waiters'[l]) : prio'[u] = prio[u]
      BY <1>2, <3>3
    <3> QED
      BY <3>1, <3>4, SameOrder
  <2>2. CASE flag' # flag
    <3>1. Create
      BY <2>2 DEF Next, Expire, ReturnError, Detach, EndTest, EndWake, EndFail, EndOver, vars
    <3>2. waiters'[l] = <<>>
      BY <3>1, IdleMeansEmpty DEF Create, threadVars, IInv
    <3> QED
      BY <3>2 DEF InOrder
  <2> QED
    BY <2>1, <2>2
<1>4. Ends'
  BY NextKeepsEnds
<1> QED
  BY <1>1, <1>2, <1>3, <1>4 DEF IInv, ListsKept, Ordered

\* The invariant holds in every behaviour.
LEMMA InvariantHolds == Spec => []IInv
<1>1. ASSUME IInv, UNCHANGED vars PROVE IInv'
  <2>1. UNCHANGED <<object, flag, threadVars, limit, at, prio, mutexVars>>
    BY <1>1 DEF vars, objectVars
  <2>2. AnyStep({}) /\ Typed' /\ {} \in SUBSET List
    BY <1>1, <2>1, StaySection DEF IInv
  <2>3. Waits' /\ Using'
    BY <1>1, <2>1, <2>2, UseKeepsLists DEF ListsKept
  <2>4. Ordered' /\ Inherits'
    BY <1>1, <2>1 DEF threadVars, mutexVars, IInv, Ordered, ByPriority, Inherits,
                      MutexTypeOK
  <2>5. Ends'
    BY <1>1, <2>1 DEF mutexVars, threadVars, IInv, Ends, Harmless
  <2> QED
    BY <2>2, <2>3, <2>4, <2>5 DEF IInv
<1> QED
  BY <1>1, InitIInv, NextKeepsIInv, PTL DEF Spec

(* In the terms of _ipc_list_suspend, _ipc_list_resume(_all) and            *)
(* rt_thread_timeout: a suspended thread is in exactly one list, once, its  *)
(* timer runs only then, and lists by priority are in order, for every      *)
(* object and however calls, time-outs and the ends of objects interleave.  *)
THEOREM WaitListsAreExact == Spec => []WaitListsExact
<1>1. ASSUME IInv PROVE WaitListsExact
  <2>1. ASSUME NEW t \in Thread
        PROVE  Cardinality({p \in List \X (1 .. Cardinality(Thread)) :
                              p[2] \in DOMAIN waiters[p[1]] /\ waiters[p[1]][p[2]] = t})
                 = (IF stat[t] = "SUSPEND" THEN 1 ELSE 0)
    <3> DEFINE X == {p \in List \X (1 .. Cardinality(Thread)) :
                       p[2] \in DOMAIN waiters[p[1]] /\ waiters[p[1]][p[2]] = t}
    <3>1. \A l \in List : waiters[l] \in Seq(Thread) /\ Distinct(waiters[l])
      BY <1>1 DEF IInv, Waits
    <3>2. ASSUME NEW p \in X
          PROVE  /\ stat[t] = "SUSPEND" /\ at[t] = p[1] /\ p[1] \in List
                 /\ p[2] \in DOMAIN waiters[p[1]] /\ waiters[p[1]][p[2]] = t
                 /\ p = <<p[1], p[2]>>
      <4>1. p[1] \in List /\ p[2] \in DOMAIN waiters[p[1]] /\ waiters[p[1]][p[2]] = t
        OBVIOUS
      <4>2. t \in Members(waiters[p[1]])
        BY <4>1 DEF Members
      <4> QED
        BY <1>1, <4>1, <4>2 DEF IInv, Waits
    <3>3. CASE stat[t] = "SUSPEND"
      <4>1. at[t] \in List /\ t \in Members(waiters[at[t]])
        BY <1>1, <3>3 DEF IInv, Waits
      <4>2. PICK i \in DOMAIN waiters[at[t]] : waiters[at[t]][i] = t
        BY <4>1 DEF Members
      <4>3. i \in 1 .. Cardinality(Thread)
        <5>1. IsFiniteSet(Thread) /\ Cardinality(Thread) \in Nat
          BY WaitingConstants, FS_CardinalityType
        <5>2. Len(waiters[at[t]]) <= Cardinality(Thread)
          BY <3>1, <4>1, <5>1, DistinctLength
        <5> QED
          BY <3>1, <4>1, <4>2, <5>1, <5>2
      <4>4. <<at[t], i>> \in X
        BY <4>1, <4>2, <4>3
      <4>5. ASSUME NEW p \in X PROVE p = <<at[t], i>>
        <5>1. p[1] = at[t] /\ p[2] \in DOMAIN waiters[at[t]] /\ waiters[at[t]][p[2]] = t
          BY <3>2, <4>5
        <5>2. p[2] = i
          BY <3>1, <4>1, <4>2, <5>1 DEF Distinct
        <5> QED
          BY <3>2, <4>5, <5>1, <5>2
      <4> HIDE DEF X
      <4>6. X = {<<at[t], i>>}
        BY <4>4, <4>5
      <4>7. Cardinality(X) = 1
        BY <4>6, FS_Singleton
      <4> QED
        BY <3>3, <4>7 DEF X
    <3>4. CASE stat[t] # "SUSPEND"
      <4>1. X = {}
        BY <3>2, <3>4
      <4> HIDE DEF X
      <4>2. Cardinality(X) = 0
        BY <4>1, FS_EmptySet
      <4> QED
        BY <3>4, <4>2 DEF X
    <3> QED
      BY <3>3, <3>4
  <2>2. \A t \in Thread : armed[t] => stat[t] = "SUSPEND"
    BY <1>1 DEF IInv, Waits
  <2>3. ASSUME NEW l \in List \ {"pool"}, flag = "PRIO" \/ l = "mutex",
               NEW i \in DOMAIN waiters[l], NEW j \in DOMAIN waiters[l], i < j
        PROVE  prio[waiters[l][i]] <= prio[waiters[l][j]]
    BY <1>1, <2>3 DEF IInv, Ordered, ByPriority, InOrder
  <2> QED
    BY <2>1, <2>2, <2>3 DEF WaitListsExact
<1> QED
  BY <1>1, InvariantHolds, PTL

(* rt_mutex_take and rt_mutex_release: no waiter of the mutex is more       *)
(* urgent than its owner runs, and whoever does not own it has its own      *)
(* priority, for any number of threads and levels.                          *)
THEOREM PriorityIsInherited == Spec => []MutexInheritance
<1>1. ASSUME IInv PROVE MutexInheritance
  <2>1. waiters["mutex"] \in Seq(Thread)
    BY <1>1 DEF IInv, Waits, List
  <2>2. ToSet(waiters["mutex"]) = Members(waiters["mutex"])
    BY DEF ToSet, Members
  <2>3. ASSUME NEW t \in Members(waiters["mutex"]) PROVE prio[owner] <= prio[t]
    <3>1. waiters["mutex"] # <<>>
      BY <2>1, <2>3, NoMembers
    <3> QED
      BY <1>1, <2>3, <3>1 DEF IInv, Inherits
  <2> QED
    BY <1>1, <2>2, <2>3 DEF MutexInheritance, IInv, Inherits
<1> QED
  BY <1>1, InvariantHolds, PTL

-----------------------------------------------------------------------------
(* Events *)

(* The loop of rt_event_send, waiter by waiter.                             *)
LEMMA LeftSteps ==
  ASSUME EventTypeOK, waiters["event"] \in Seq(Thread), NEW sent \in SUBSET Bit
  PROVE  LET left  == Left(sent)
             queue == waiters["event"]
         IN  /\ left[0] = set \union sent
             /\ \A i \in 1 .. Len(queue) :
                  left[i] =
                    IF /\ info[queue[i]].clear
                       /\ Satisfied(info[queue[i]].all, eventSet[queue[i]], left[i - 1])
                    THEN left[i - 1] \ eventSet[queue[i]]
                    ELSE left[i - 1]
<1> DEFINE queue == waiters["event"]
           Takes(i, have) == /\ info[queue[i]].clear
                             /\ Satisfied(info[queue[i]].all, eventSet[queue[i]], have)
           D(f) == [i \in 0 .. Len(queue) |->
                      IF i = 0 THEN set \union sent
                      ELSE IF Takes(i, f[i - 1]) THEN f[i - 1] \ eventSet[queue[i]]
                           ELSE f[i - 1]]
           F == [i \in 1 .. Len(queue) |-> [have \in SUBSET Bit |->
                   IF Takes(i, have) THEN have \ eventSet[queue[i]] ELSE have]]
           h == CHOOSE f : f = D(f)
<1>1. F \in [1 .. Len(queue) -> [SUBSET Bit -> SUBSET Bit]]
  OBVIOUS
<1>2. Len(queue) \in Nat /\ (set \union sent) \in SUBSET Bit
  BY DEF EventTypeOK
<1>3. PICK f \in [0 .. Len(queue) -> SUBSET Bit] :
        Iterates(f, Len(queue), set \union sent, F)
  <2> HIDE DEF F, queue
  <2> QED
    BY <1>1, <1>2, IteratesExist
<1>4. ASSUME NEW i \in 0 .. Len(queue) PROVE f[i] = D(f)[i]
  <2>1. CASE i = 0
    BY <1>3, <2>1 DEF Iterates
  <2>2. CASE i # 0
    <3>1. i \in 1 .. Len(queue) /\ f[i - 1] \in SUBSET Bit
      BY <1>2, <2>2
    <3>2. f[i] = F[i][f[i - 1]]
      BY <1>3, <3>1 DEF Iterates
    <3> QED
      BY <2>2, <3>1, <3>2
  <2> QED
    BY <2>1, <2>2
<1>5. f = D(f)
  BY <1>4
<1>6. h = D(h)
  BY <1>5, Zenon
<1>7. Left(sent) = h
  BY DEF Left
<1> HIDE DEF h
<1>8. ASSUME NEW i \in 0 .. Len(queue)
      PROVE  h[i] = IF i = 0 THEN set \union sent
                    ELSE IF Takes(i, h[i - 1]) THEN h[i - 1] \ eventSet[queue[i]]
                    ELSE h[i - 1]
  BY <1>6
<1> HIDE DEF Takes
<1>9. h[0] = set \union sent
  <2>1. 0 \in 0 .. Len(queue)
    BY <1>2
  <2> HIDE DEF queue
  <2> QED
    BY <1>8, <2>1
<1>10. ASSUME NEW i \in 1 .. Len(queue)
       PROVE  h[i] = IF Takes(i, h[i - 1]) THEN h[i - 1] \ eventSet[queue[i]] ELSE h[i - 1]
  <2>1. i \in 0 .. Len(queue) /\ i # 0
    BY <1>2
  <2> HIDE DEF queue
  <2> QED
    BY <1>8, <2>1
<1> USE DEF Takes
<1> QED
  BY <1>7, <1>9, <1>10

(* What is left only shrinks on the way, from what was there and sent.      *)
LEMMA LeftShrinks ==
  ASSUME EventTypeOK, waiters["event"] \in Seq(Thread), NEW sent \in SUBSET Bit,
         NEW i \in 0 .. Len(waiters["event"]), NEW j \in i .. Len(waiters["event"])
  PROVE  /\ Left(sent)[j] \subseteq Left(sent)[i]
         /\ Left(sent)[j] \subseteq set \union sent
<1> DEFINE n == Len(waiters["event"])
           left == Left(sent)
<1>1. n \in Nat
  OBVIOUS
<1>2. left[0] = set \union sent /\ \A k \in 1 .. n : left[k] \subseteq left[k - 1]
  BY LeftSteps
<1> HIDE DEF left, n
<1>3. \A k \in 0 .. n : left[k] \subseteq set \union sent
  <2> DEFINE P == {k \in 0 .. n : left[k] \subseteq set \union sent}
  <2>1. 0 \in P /\ \A k \in 1 .. n : k - 1 \in P => k \in P
    BY <1>1, <1>2
  <2> HIDE DEF P
  <2>2. \A k \in 0 .. n : k \in P
    BY <1>1, <2>1, PlaceInduction
  <2> QED
    BY <2>2 DEF P
<1>4. \A k \in 0 .. n : i <= k => left[k] \subseteq left[i]
  <2> DEFINE P == {k \in 0 .. n : i <= k => left[k] \subseteq left[i]}
  <2>1. 0 \in P
    BY <1>1 DEF n
  <2>2. ASSUME NEW k \in 1 .. n, k - 1 \in P PROVE k \in P
    <3>1. CASE i <= k - 1
      BY <1>2, <2>2, <3>1
    <3>2. CASE ~(i <= k - 1)
      <4>1. k <= i
        BY <1>1, <3>2 DEF n
      <4> QED
        BY <1>1, <4>1 DEF n
    <3> QED
      BY <3>1, <3>2
  <2> HIDE DEF P
  <2>3. \A k \in 0 .. n : k \in P
    BY <1>1, <2>1, <2>2, PlaceInduction
  <2> QED
    BY <2>3 DEF P
<1>5. j \in 0 .. n /\ i <= j
  BY DEF n
<1> QED
  BY <1>3, <1>4, <1>5 DEF left

\* A waiter asked for something, and not all it needs is there.
Asks ==
  /\ EventTypeOK
  /\ \A t \in Members(waiters["event"]) :
       /\ eventSet[t] = asked[t]
       /\ asked[t] # {}
       /\ ~Satisfied(info[t].all, asked[t], set)

(* Less does not satisfy anybody more.                                      *)
LEMMA SatisfiedByMore ==
  ASSUME NEW all, NEW want, NEW have, NEW more, have \subseteq more,
         Satisfied(all, want, have)
  PROVE  Satisfied(all, want, more)
BY DEF Satisfied

(* What rt_event_send does to each waiter, by its place in the list.        *)
LEMMA SendEffect ==
  ASSUME Waits, EventTypeOK, NEW c, NEW sent \in SUBSET Bit, EventSend(c, sent)
  PROVE  LET queue == waiters["event"]
             left  == Left(sent)
         IN  /\ EventTypeOK' /\ posted' = set \union sent
             /\ set' = left[Len(queue)]
             /\ UNCHANGED <<info, asked>>
             /\ Members(waiters'["event"]) = {queue[i] : i \in DOMAIN queue \ ToWake(left)}
             /\ \A i \in DOMAIN queue :
                  IF i \in ToWake(left)
                  THEN /\ stat'[queue[i]] = "READY" /\ error'[queue[i]] = "EOK"
                       /\ eventSet'[queue[i]] = Got(queue[i], left[i - 1])
                  ELSE /\ stat'[queue[i]] = "SUSPEND"
                       /\ eventSet'[queue[i]] = eventSet[queue[i]]
<1> DEFINE queue == waiters["event"]
           left == Left(sent)
           places == ToWake(left)
           Place1(t) == CHOOSE i \in DOMAIN queue : queue[i] = t
           served == {queue[i] : i \in places}
<1>1. /\ queue \in Seq(Thread) /\ Distinct(queue)
      /\ \A t \in Members(queue) : stat[t] = "SUSPEND"
      /\ waiters \in [List -> Seq(Thread)] /\ "event" \in List
  BY DEF Waits, List
<1>2. places \subseteq DOMAIN queue
  BY DEF ToWake
<1>3. /\ posted' = set \union sent
      /\ set' = left[Len(queue)]
      /\ eventSet' = [t \in Thread |-> IF t \in served THEN Got(t, left[Place1(t) - 1])
                                                       ELSE eventSet[t]]
      /\ Resume("event", served, "EOK")
      /\ info' = info /\ asked' = asked
  BY DEF EventSend
<1>4. \A i \in DOMAIN queue : Place1(queue[i]) = i /\ queue[i] \in Thread
  BY <1>1 DEF Distinct
<1>5. \A i \in DOMAIN queue : queue[i] \in served <=> i \in places
  BY <1>1, <1>2 DEF Distinct
<1>6. left[Len(queue)] \subseteq set \union sent
  <2>1. 0 \in 0 .. Len(queue) /\ Len(queue) \in 0 .. Len(queue)
    BY <1>1
  <2> QED
    BY <1>1, <2>1, LeftShrinks
<1> HIDE DEF left, places, Place1
<1>7. /\ waiters'["event"] = UnlinkAll(queue, served)
      /\ stat' = [t \in Thread |-> IF t \in served THEN "READY" ELSE stat[t]]
      /\ error' = [t \in Thread |-> IF t \in served THEN "EOK" ELSE error[t]]
  BY <1>1, <1>3 DEF Resume
<1>8. Members(waiters'["event"]) = Members(queue) \ served
  BY <1>1, <1>7, UnlinkAllProperties
<1> HIDE DEF served
<1>9. Members(waiters'["event"]) = {queue[i] : i \in DOMAIN queue \ places}
  BY <1>5, <1>8 DEF Members
<1>10. EventTypeOK'
  <2>1. \A t \in Thread : Got(t, left[Place1(t) - 1]) \in SUBSET Bit
    BY DEF Got, EventTypeOK
  <2>2. eventSet' \in [Thread -> SUBSET Bit]
    BY <1>3, <2>1 DEF EventTypeOK
  <2> QED
    BY <1>3, <1>6, <2>2 DEF EventTypeOK
<1>11. ASSUME NEW i \in DOMAIN queue
       PROVE  IF i \in places
              THEN /\ stat'[queue[i]] = "READY" /\ error'[queue[i]] = "EOK"
                   /\ eventSet'[queue[i]] = Got(queue[i], left[i - 1])
              ELSE /\ stat'[queue[i]] = "SUSPEND"
                   /\ eventSet'[queue[i]] = eventSet[queue[i]]
  <2>1. queue[i] \in Members(queue) /\ queue[i] \in Thread
    BY <1>4 DEF Members
  <2>2. eventSet'[queue[i]] = IF queue[i] \in served THEN Got(queue[i], left[Place1(queue[i]) - 1])
                              ELSE eventSet[queue[i]]
    BY <1>3, <2>1
  <2>3. stat'[queue[i]] = IF queue[i] \in served THEN "READY" ELSE stat[queue[i]]
    BY <1>7, <2>1
  <2>4. queue[i] \in served => error'[queue[i]] = "EOK"
    BY <1>7, <2>1
  <2> QED
    BY <1>1, <1>4, <1>5, <2>1, <2>2, <2>3, <2>4
<1> QED
  BY <1>3, <1>9, <1>10, <1>11 DEF left, places

(* A waiter that rt_event_send leaves waiting lacks something also of what  *)
(* remains behind the last one.                                             *)
LEMMA SendKeepsAsks ==
  ASSUME Waits, Asks, NEW c, NEW sent \in SUBSET Bit, EventSend(c, sent)
  PROVE  Asks'
<1> DEFINE queue == waiters["event"]
           left == Left(sent)
<1>1. EventTypeOK /\ queue \in Seq(Thread)
  BY DEF Asks, Waits, List
<1>2. /\ EventTypeOK'
      /\ set' = left[Len(queue)] /\ info' = info /\ asked' = asked
      /\ Members(waiters'["event"]) = {queue[i] : i \in DOMAIN queue \ ToWake(left)}
      /\ \A i \in DOMAIN queue \ ToWake(left) : eventSet'[queue[i]] = eventSet[queue[i]]
  BY <1>1, SendEffect
<1>3. ASSUME NEW i \in DOMAIN queue \ ToWake(left)
      PROVE  /\ eventSet'[queue[i]] = asked'[queue[i]]
             /\ asked'[queue[i]] # {}
             /\ ~Satisfied(info'[queue[i]].all, asked'[queue[i]], set')
  <2>1. /\ eventSet[queue[i]] = asked[queue[i]]
        /\ asked[queue[i]] # {}
    BY DEF Asks, Members
  <2>2. ~Satisfied(info[queue[i]].all, eventSet[queue[i]], left[i - 1])
    BY DEF ToWake
  <2>3. left[Len(queue)] \subseteq left[i - 1]
    <3>1. i - 1 \in 0 .. Len(queue) /\ Len(queue) \in i - 1 .. Len(queue)
      BY <1>1
    <3> QED
      BY <1>1, <3>1, LeftShrinks
  <2> HIDE DEF left
  <2>4. ~Satisfied(info[queue[i]].all, asked[queue[i]], left[Len(queue)])
    BY <2>1, <2>2, <2>3, SatisfiedByMore
  <2> QED
    BY <1>2, <2>1, <2>4
<1> HIDE DEF left, queue
<1> QED
  BY <1>2, <1>3 DEF Asks

(* Fewer waiters, and fewer events, leave nobody with all it needs.         *)
LEMMA FewerAsk ==
  ASSUME Asks, EventTypeOK', set' \subseteq set,
         Members(waiters'["event"]) \subseteq Members(waiters["event"]),
         \A t \in Members(waiters'["event"]) :
           eventSet'[t] = eventSet[t] /\ info'[t] = info[t] /\ asked'[t] = asked[t]
  PROVE  Asks'
<1>1. ASSUME NEW t \in Members(waiters'["event"])
      PROVE  /\ eventSet'[t] = asked'[t] /\ asked'[t] # {}
             /\ ~Satisfied(info'[t].all, asked'[t], set')
  <2>1. ~Satisfied(info[t].all, asked[t], set)
    BY DEF Asks
  <2>2. ~Satisfied(info[t].all, asked[t], set')
    BY <2>1, SatisfiedByMore
  <2> QED
    BY <2>2 DEF Asks
<1> QED
  BY <1>1 DEF Asks

(* Where nobody waits nobody lacks anything.                                *)
LEMMA NobodyAsks ==
  ASSUME EventTypeOK', waiters'["event"] = <<>>
  PROVE  Asks'
BY DEF Asks, Members

(* rt_event_recv that blocks: the new waiter lacks something, too.          *)
LEMMA WaitKeepsAsks ==
  ASSUME Waits, Asks, prio \in [Thread -> Nat], NEW t \in Thread,
         NEW want \in SUBSET Bit, NEW how \in Info, NEW lim,
         EventWait(t, want, how, lim)
  PROVE  Asks'
<1>0. "event" \in List
  BY DEF List
<1>1. /\ eventSet' = [eventSet EXCEPT ![t] = want]
      /\ info' = [info EXCEPT ![t] = how]
      /\ asked' = [asked EXCEPT ![t] = want]
      /\ posted' = {} /\ set' = set
      /\ want # {} /\ ~Satisfied(how.all, want, set)
      /\ waiters' = [waiters EXCEPT !["event"] = LinkBehind(@, Place("event", t), t)]
  BY DEF EventWait, Wait
<1>2. EventTypeOK /\ EventTypeOK'
  BY <1>1 DEF Asks, EventTypeOK
<1>3. Members(waiters'["event"]) = Members(waiters["event"]) \union {t}
  <2>1. Place("event", t) \in 0 .. Len(waiters["event"])
    BY <1>0, PlaceInList
  <2> QED
    BY <1>0, <1>1, <2>1, LinkBehindMembers DEF Waits
<1>4. Members(waiters["event"]) \subseteq Thread
  BY <1>0 DEF Waits, Members
<1>5. ASSUME NEW u \in Members(waiters'["event"])
      PROVE  /\ eventSet'[u] = asked'[u] /\ asked'[u] # {}
             /\ ~Satisfied(info'[u].all, asked'[u], set')
  <2>1. CASE u = t
    BY <1>1, <1>2, <2>1 DEF EventTypeOK
  <2>2. CASE u # t
    <3>1. u \in Members(waiters["event"]) /\ u \in Thread
      BY <1>3, <1>4, <2>2
    <3>2. /\ eventSet'[u] = eventSet[u] /\ asked'[u] = asked[u] /\ info'[u] = info[u]
      BY <1>1, <1>2, <2>2, <3>1 DEF EventTypeOK
    <3> QED
      BY <1>1, <3>1, <3>2 DEF Asks
  <2> QED
    BY <2>1, <2>2
<1> QED
  BY <1>2, <1>5 DEF Asks

(* No step lets a thread sleep while what it asked for is there.            *)
LEMMA NextKeepsAsks == ASSUME IInv, Asks, Next PROVE Asks'
<1>0. /\ Waits /\ prio \in [Thread -> Nat] /\ EventTypeOK
      /\ "event" \in List /\ waiters["event"] \in Seq(Thread)
      /\ Members(waiters["event"]) \subseteq Thread
  <2>1. Waits /\ prio \in [Thread -> Nat] /\ EventTypeOK
    BY DEF IInv, Inherits, Asks
  <2>2. "event" \in List /\ waiters["event"] \in Seq(Thread)
    BY <2>1 DEF Waits, List
  <2> QED
    BY <2>1, <2>2 DEF Members
<1>1. Waits' /\ Using' /\ waiters' \in [List -> Seq(Thread)]
  BY NextKeepsLists DEF ListsKept, Waits
<1>2. CASE UseEvent /\ UNCHANGED <<object, flag>>
  <2>1. ASSUME NEW c \in Context, NEW sent \in SUBSET Bit, EventSend(c, sent)
        PROVE  Asks'
    BY <1>0, <2>1, SendKeepsAsks
  <2>2. ASSUME NEW c \in Context, EventReset(c) PROVE Asks'
    <3>1. waiters'["event"] = <<>> /\ EventTypeOK'
      BY <1>0, <2>2 DEF EventReset, ResumeAll, EventTypeOK
    <3> QED
      BY <3>1, NobodyAsks
  <2>3. ASSUME NEW t \in Thread, NEW want \in SUBSET Bit, NEW how \in Info,
               EventRecv(t, want, how)
        PROVE  Asks'
    <3>1. /\ UNCHANGED <<eventSet, info, asked, waiters>>
          /\ set' \subseteq set /\ posted' = {}
      BY <2>3 DEF EventRecv, threadVars
    <3>2. EventTypeOK'
      BY <1>0, <3>1 DEF EventTypeOK
    <3> QED
      BY <3>1, <3>2, FewerAsk
  <2>4. ASSUME NEW t \in Thread, NEW want \in SUBSET Bit, NEW how \in Info,
               NEW lim \in Limits, EventWait(t, want, how, lim)
        PROVE  Asks'
    BY <1>0, <2>4, WaitKeepsAsks
  <2>5. ASSUME NEW t \in Thread, EventReturn(t) PROVE Asks'
    <3>1. /\ eventSet' = [eventSet EXCEPT ![t] = {}]
          /\ info' = [info EXCEPT ![t] = NoInfo]
          /\ asked' = [asked EXCEPT ![t] = {}]
          /\ posted' = {} /\ UNCHANGED <<set, waiters>>
          /\ stat[t] = "READY"
      BY <2>5 DEF EventReturn, threadVars, Woken
    <3>2. EventTypeOK'
      BY <1>0, <3>1 DEF EventTypeOK, Info, NoInfo
    <3>3. t \notin Members(waiters["event"])
      BY <1>0, <3>1 DEF Waits
    <3>4. \A u \in Members(waiters'["event"]) :
            eventSet'[u] = eventSet[u] /\ info'[u] = info[u] /\ asked'[u] = asked[u]
      BY <1>0, <3>1, <3>3 DEF EventTypeOK
    <3> QED
      BY <3>1, <3>2, <3>4, FewerAsk
  <2> QED
    BY <1>2, <2>1, <2>2, <2>3, <2>4, <2>5 DEF UseEvent, EventNext
<1>3. ASSUME \/ UseMutex /\ UNCHANGED <<object, flag>>
             \/ UseMailbox /\ UNCHANGED <<object, flag>>
             \/ UseQueue /\ UNCHANGED <<object, flag>>
             \/ UsePool /\ UNCHANGED <<object, flag>>
      PROVE  Asks'
  <2>1. UNCHANGED eventVars /\ object' \in {"mutex", "mailbox", "queue", "pool"}
    BY <1>3 DEF UseMutex, UseMailbox, UseQueue, UsePool
  <2>2. EventTypeOK'
    BY <1>0, <2>1 DEF EventTypeOK, eventVars
  <2>3. waiters'["event"] = <<>>
    <3>1. "event" \notin ListsOf[object']
      BY <2>1 DEF ListsOf
    <3> QED
      BY <1>0, <1>1, <3>1 DEF Using
  <2> QED
    BY <2>2, <2>3, NobodyAsks
<1>4. ASSUME NEW t \in Thread, Expire(t) PROVE Asks'
  <2>1. UNCHANGED eventVars /\ waiters'["event"] = Unlink(waiters["event"], t)
    BY <1>0, <1>4 DEF Expire, objectVars, Timeout
  <2>2. Members(waiters'["event"]) \subseteq Members(waiters["event"])
    BY <1>0, <2>1, UnlinkProperties DEF Waits
  <2>3. EventTypeOK'
    BY <1>0, <2>1 DEF EventTypeOK, eventVars
  <2> QED
    BY <2>1, <2>2, <2>3, FewerAsk DEF eventVars
<1>5. ASSUME NEW t \in Thread, ReturnError(t) PROVE Asks'
  <2>1. /\ eventSet' = [eventSet EXCEPT ![t] = {}]
        /\ info' = [info EXCEPT ![t] = NoInfo]
        /\ asked' = [asked EXCEPT ![t] = {}]
        /\ UNCHANGED <<set, posted, waiters>>
        /\ stat[t] = "READY"
    BY <1>5 DEF ReturnError, GiveUp, Failed
  <2>2. EventTypeOK'
    BY <1>0, <2>1 DEF EventTypeOK, Info, NoInfo
  <2>3. t \notin Members(waiters["event"])
    BY <1>0, <2>1 DEF Waits
  <2>4. \A u \in Members(waiters'["event"]) :
          eventSet'[u] = eventSet[u] /\ info'[u] = info[u] /\ asked'[u] = asked[u]
    BY <1>0, <2>1, <2>3 DEF EventTypeOK
  <2> QED
    BY <2>1, <2>2, <2>4, FewerAsk
<1>6. ASSUME NEW t \in Thread, EndStep(t) PROVE Asks'
  <2>1. UNCHANGED eventVars
    BY <1>6 DEF EndStep, Detach, EndTest, EndWake, EndFail, EndOver, objectVars
  <2>2. Members(waiters'["event"]) \subseteq Members(waiters["event"]) /\ EventTypeOK'
    BY <1>0, <1>6, <2>1, EndSections DEF EventTypeOK, eventVars
  <2> QED
    BY <2>1, <2>2, FewerAsk DEF eventVars
<1>7. CASE Create
  <2>1. /\ EventFresh(set', posted')
        /\ UNCHANGED <<waiters, eventSet, info, asked>>
        /\ \A t \in Thread : at[t] = "idle"
    BY <1>7 DEF Create, threadVars
  <2>2. EventTypeOK' /\ waiters'["event"] = <<>>
    BY <1>0, <2>1, IdleMeansEmpty DEF EventTypeOK, EventFresh
  <2> QED
    BY <2>2, NobodyAsks
<1>8. CASE UNCHANGED vars
  <2>1. UNCHANGED <<waiters, eventVars>>
    BY <1>8 DEF vars, threadVars, objectVars
  <2>2. EventTypeOK'
    BY <1>0, <2>1 DEF EventTypeOK, eventVars
  <2> QED
    BY <2>1, <2>2, FewerAsk DEF eventVars
<1> QED
  BY <1>2, <1>3, <1>4, <1>5, <1>6, <1>7, <1>8 DEF Next, EndStep

\* So does the one of the events.
LEMMA AsksHolds == Spec => [](IInv /\ Asks)
<1>1. ASSUME Init PROVE Asks
  <2>1. waiters["event"] = <<>> /\ EventTypeOK
    BY <1>1 DEF Init, WaitingInit, EventFresh, EventTypeOK, Info, NoInfo, List
  <2> QED
    BY <2>1 DEF Asks, Members
<1>2. ASSUME Asks, UNCHANGED vars PROVE Asks'
  <2>1. UNCHANGED <<waiters, set, eventSet, info, asked, posted>>
    BY <1>2 DEF vars, threadVars, objectVars, eventVars
  <2> QED
    BY <1>2, <2>1 DEF Asks, EventTypeOK
<1> QED
  BY <1>1, <1>2, InvariantHolds, NextKeepsAsks, PTL DEF Spec

(* rt_event_recv and rt_event_send: nobody sleeps while the events it asked *)
(* for are there, for any events, options and number of threads.            *)
THEOREM EventsAreServed == Spec => []EventsServed
<1>1. ASSUME Asks PROVE EventsServed
  <2>1. ToSet(waiters["event"]) = Members(waiters["event"])
    BY DEF ToSet, Members
  <2> QED
    BY <1>1, <2>1 DEF Asks, EventsServed, Satisfied
<1> QED
  BY <1>1, AsksHolds, PTL

(* What remains of the events once some waiters were looked at is what was  *)
(* posted without what those of them took that clear it.                    *)
LEMMA LeftIsRest ==
  ASSUME EventTypeOK, waiters["event"] \in Seq(Thread), NEW sent \in SUBSET Bit
  PROVE  LET queue == waiters["event"]
             left  == Left(sent)
             taken == {i \in ToWake(left) : info[queue[i]].clear}
         IN  left[Len(queue)] =
               (set \union sent) \ UNION {Got(queue[i], left[i - 1]) : i \in taken}
<1> DEFINE queue == waiters["event"]
           n == Len(queue)
           left == Left(sent)
           taken == {i \in ToWake(left) : info[queue[i]].clear}
           G(i) == Got(queue[i], left[i - 1])
           Rest(k) == (set \union sent) \ UNION {G(i) : i \in {j \in taken : j <= k}}
           P == {k \in 0 .. n : left[k] = Rest(k)}
<1>1. /\ n \in Nat /\ DOMAIN queue = 1 .. n
      /\ taken \subseteq 1 .. n
  BY DEF ToWake
<1>2. /\ left[0] = set \union sent
      /\ \A i \in 1 .. n : left[i] = IF i \in taken THEN left[i - 1] \ eventSet[queue[i]]
                                     ELSE left[i - 1]
  <2>1. /\ left[0] = set \union sent
        /\ \A i \in 1 .. n : left[i] =
             IF /\ info[queue[i]].clear
                /\ Satisfied(info[queue[i]].all, eventSet[queue[i]], left[i - 1])
             THEN left[i - 1] \ eventSet[queue[i]]
             ELSE left[i - 1]
    BY LeftSteps
  <2>2. \A i \in 1 .. n :
          i \in taken <=>
            /\ info[queue[i]].clear
            /\ Satisfied(info[queue[i]].all, eventSet[queue[i]], left[i - 1])
    BY <1>1 DEF ToWake
  <2> HIDE DEF left, taken, queue
  <2> QED
    BY <2>1, <2>2
<1>3. ASSUME NEW i \in 1 .. n, i \in taken
      PROVE  left[i - 1] \ eventSet[queue[i]] = left[i - 1] \ G(i)
  <2>1. Satisfied(info[queue[i]].all, eventSet[queue[i]], left[i - 1])
    BY <1>3 DEF ToWake
  <2> QED
    BY DEF Got
<1> HIDE DEF left, taken, queue, n, G
<1>4. 0 \in P
  <2>1. \A j \in taken : ~(j <= 0)
    BY <1>1
  <2>2. {j \in taken : j <= 0} = {}
    BY <2>1, Zenon
  <2>3. Rest(0) = set \union sent
    BY <2>2
  <2>4. 0 \in 0 .. n
    BY <1>1
  <2> QED
    BY <1>2, <2>3, <2>4
<1>5. ASSUME NEW k \in 1 .. n, k - 1 \in P PROVE k \in P
  <2>1. k \in 0 .. n /\ k - 1 \in 0 .. n
    BY <1>1
  <2>2. left[k - 1] = Rest(k - 1)
    BY <1>5
  <2>3. \A j \in taken : j <= k <=> j <= k - 1 \/ j = k
    BY <1>1
  <2>4. CASE k \in taken
    <3>1. {j \in taken : j <= k} = {j \in taken : j <= k - 1} \union {k}
      BY <2>3, <2>4
    <3>2. left[k] = left[k - 1] \ G(k)
      BY <1>2, <1>3, <2>4
    <3>3. Rest(k) = Rest(k - 1) \ G(k)
      BY <3>1
    <3> QED
      BY <2>1, <2>2, <3>2, <3>3
  <2>5. CASE k \notin taken
    <3>1. {j \in taken : j <= k} = {j \in taken : j <= k - 1}
      BY <2>3, <2>5
    <3>2. left[k] = left[k - 1]
      BY <1>2, <2>5
    <3> QED
      BY <2>1, <2>2, <3>1, <3>2
  <2> QED
    BY <2>4, <2>5
<1> HIDE DEF P
<1>6. \A k \in 0 .. n : k \in P
  BY <1>1, <1>4, <1>5, PlaceInduction
<1>7. left[n] = Rest(n)
  BY <1>1, <1>6 DEF P
<1>8. \A j \in taken : j <= n
  BY <1>1
<1> QED
  BY <1>7, <1>8 DEF left, taken, queue, n, G

\* What a send and its waiters agree on.
TakenOnce ==
  /\ \A t \in Served : /\ eventSet'[t] # {}
                       /\ eventSet'[t] \subseteq asked[t] \intersect posted'
                       /\ info[t].all => eventSet'[t] = asked[t]
  /\ \A t, u \in Takers : t # u => eventSet'[t] \intersect eventSet'[u] = {}
  /\ set' = posted' \ UNION {eventSet'[t] : t \in Takers}

(* rt_event_send hands out its events accordingly.                          *)
LEMMA SendTakesOnce ==
  ASSUME Waits, Asks, NEW c, NEW sent \in SUBSET Bit, EventSend(c, sent)
  PROVE  TakenOnce
<1> DEFINE queue == waiters["event"]
           n == Len(queue)
           left == Left(sent)
           places == ToWake(left)
           taken == {i \in places : info[queue[i]].clear}
           G(i) == Got(queue[i], left[i - 1])
<1>1. EventTypeOK /\ queue \in Seq(Thread) /\ n \in Nat /\ DOMAIN queue = 1 .. n
  BY DEF Asks, Waits, List
<1>2. /\ posted' = set \union sent /\ set' = left[n]
      /\ \A i \in DOMAIN queue :
           IF i \in places
           THEN stat'[queue[i]] = "READY" /\ error'[queue[i]] = "EOK" /\ eventSet'[queue[i]] = G(i)
           ELSE stat'[queue[i]] = "SUSPEND"
  BY <1>1, SendEffect
<1>3. places \subseteq DOMAIN queue
      /\ \A i \in places : Satisfied(info[queue[i]].all, eventSet[queue[i]], left[i - 1])
  BY DEF ToWake
<1>4. \A i \in DOMAIN queue : eventSet[queue[i]] = asked[queue[i]] /\ asked[queue[i]] # {}
  BY DEF Asks, Members
<1>5. ASSUME NEW i \in places
      PROVE  /\ left[i - 1] \subseteq posted'
             /\ \A j \in places : i < j => left[j - 1] \subseteq left[i]
  <2>1. 0 \in 0 .. n /\ i - 1 \in 0 .. n /\ i \in 0 .. n
    BY <1>1, <1>3
  <2>2. left[i - 1] \subseteq set \union sent
    BY <1>1, <2>1, LeftShrinks
  <2>3. ASSUME NEW j \in places, i < j PROVE left[j - 1] \subseteq left[i]
    <3>1. j - 1 \in i .. n
      BY <1>1, <1>3, <2>3
    <3> QED
      BY <1>1, <2>1, <3>1, LeftShrinks
  <2> QED
    BY <1>2, <2>2, <2>3
<1>6. \A i \in taken : left[i] = left[i - 1] \ eventSet[queue[i]]
  BY <1>1, <1>3, LeftSteps
<1>7. left[n] = (set \union sent) \ UNION {G(i) : i \in taken}
  BY <1>1, LeftIsRest
<1>8. \A i \in places : G(i) = IF info[queue[i]].all THEN eventSet[queue[i]]
                               ELSE eventSet[queue[i]] \intersect left[i - 1]
  BY DEF Got
<1> HIDE DEF G, left, places
<1>9. Served = {queue[i] : i \in places}
  <2>1. ToSet(queue) = {queue[i] : i \in DOMAIN queue}
    BY DEF ToSet
  <2> QED
    BY <1>2, <1>3, <2>1 DEF Served
<1>10. Takers = {queue[i] : i \in taken}
  BY <1>9 DEF Takers
<1>11. ASSUME NEW i \in places
       PROVE  /\ eventSet'[queue[i]] = G(i)
              /\ G(i) # {} /\ G(i) \subseteq asked[queue[i]] \intersect posted'
              /\ G(i) \subseteq left[i - 1]
              /\ info[queue[i]].all => G(i) = asked[queue[i]]
  <2>1. i \in DOMAIN queue /\ Satisfied(info[queue[i]].all, eventSet[queue[i]], left[i - 1])
    BY <1>3
  <2> QED
    BY <1>2, <1>4, <1>5, <1>8, <2>1 DEF Satisfied
<1>12. ASSUME NEW i \in taken, NEW j \in taken, i < j PROVE G(i) \intersect G(j) = {}
  <2>1. G(j) \subseteq left[i]
    BY <1>5, <1>11, <1>12
  <2>2. G(i) \subseteq eventSet[queue[i]]
    BY <1>3, <1>4, <1>11
  <2> QED
    BY <1>6, <2>1, <2>2
<1>13. ASSUME NEW t \in Takers, NEW u \in Takers, t # u
       PROVE  eventSet'[t] \intersect eventSet'[u] = {}
  <2>1. PICK i \in taken : t = queue[i]
    BY <1>10
  <2>2. PICK j \in taken : u = queue[j]
    BY <1>10
  <2>3. i < j \/ j < i
    <3>1. i \in Int /\ j \in Int /\ i # j
      BY <1>1, <1>3, <1>13, <2>1, <2>2
    <3> QED
      BY <3>1
  <2>4. G(i) \intersect G(j) = {}
    BY <1>12, <2>3
  <2> QED
    BY <1>11, <2>1, <2>2, <2>4
<1>14. {eventSet'[t] : t \in Takers} = {G(i) : i \in taken}
  BY <1>10, <1>11
<1>15. set' = posted' \ UNION {eventSet'[t] : t \in Takers}
  BY <1>2, <1>7, <1>14
<1>16. \A t \in Served : /\ eventSet'[t] # {}
                         /\ eventSet'[t] \subseteq asked[t] \intersect posted'
                         /\ info[t].all => eventSet'[t] = asked[t]
  BY <1>9, <1>11
<1> QED
  BY <1>13, <1>15, <1>16 DEF TakenOnce

(* What is not a send hands out nothing.                                    *)
LEMMA OthersServeNobody ==
  ASSUME IInv, Asks, Next, posted' # {}, posted' # posted \/ Served # {}
  PROVE  TakenOnce
<1>0. /\ Waits
      /\ "event" \in List /\ waiters["event"] \in Seq(Thread)
      /\ ToSet(waiters["event"]) = Members(waiters["event"])
      /\ Members(waiters["event"]) \subseteq Thread
      /\ \A t \in Members(waiters["event"]) : stat[t] = "SUSPEND"
  <2>1. Waits
    BY DEF IInv
  <2>2. "event" \in List /\ waiters["event"] \in Seq(Thread)
    BY <2>1 DEF Waits, List
  <2>3. \A t \in Members(waiters["event"]) : stat[t] = "SUSPEND"
    BY <2>1, <2>2 DEF Waits
  <2> QED
    BY <2>1, <2>2, <2>3 DEF Members, ToSet
<1>1. ASSUME UNCHANGED stat PROVE Served = {}
  BY <1>0, <1>1 DEF Served
<1>2. ASSUME waiters["event"] = <<>> PROVE Served = {}
  BY <1>2 DEF Served, ToSet
<1>3. CASE UseEvent /\ UNCHANGED <<object, flag>>
  <2>1. ASSUME NEW c \in Context, NEW sent \in SUBSET Bit, EventSend(c, sent)
        PROVE  TakenOnce
    BY <1>0, <2>1, SendTakesOnce
  <2>2. ASSUME NEW c \in Context, EventReset(c) PROVE FALSE
    BY <2>2 DEF EventReset
  <2>3. ASSUME NEW t \in Thread, NEW want \in SUBSET Bit, NEW how \in Info,
               EventRecv(t, want, how) \/ \E lim \in Limits : EventWait(t, want, how, lim)
        PROVE  FALSE
    BY <2>3 DEF EventRecv, EventWait
  <2>4. ASSUME NEW t \in Thread, EventReturn(t) PROVE FALSE
    BY <2>4 DEF EventReturn
  <2> QED
    BY <1>3, <2>1, <2>2, <2>3, <2>4 DEF UseEvent, EventNext
<1>4. ASSUME \/ UseMutex /\ UNCHANGED <<object, flag>>
             \/ UseMailbox /\ UNCHANGED <<object, flag>>
             \/ UseQueue /\ UNCHANGED <<object, flag>>
             \/ UsePool /\ UNCHANGED <<object, flag>>
      PROVE  FALSE
  <2>1. posted' = posted /\ object \in {"mutex", "mailbox", "queue", "pool"}
    BY <1>4 DEF UseMutex, UseMailbox, UseQueue, UsePool, eventVars
  <2>2. waiters["event"] = <<>>
    BY <1>0, <2>1 DEF IInv, Using, ListsOf
  <2> QED
    BY <1>2, <2>1, <2>2
<1>5. ASSUME NEW t \in Thread, Expire(t) PROVE FALSE
  <2>1. /\ posted' = posted
        /\ stat' = [stat EXCEPT ![t] = "READY"]
        /\ error' = [error EXCEPT ![t] = "ETIMEOUT"]
        /\ error \in [Thread -> Error]
    BY <1>5 DEF Expire, objectVars, eventVars, Timeout, IInv, Typed
  <2>2. \A u \in Served : FALSE
    BY <1>0, <2>1 DEF Served
  <2> QED
    BY <2>1, <2>2
<1>6. ASSUME NEW t \in Thread, ReturnError(t) PROVE FALSE
  <2>1. posted' = posted /\ UNCHANGED stat
    BY <1>6 DEF ReturnError, GiveUp
  <2> QED
    BY <1>1, <2>1
<1>7. ASSUME NEW t \in Thread, EndStep(t) PROVE FALSE
  <2>1. posted' = posted
    BY <1>7 DEF EndStep, Detach, EndTest, EndWake, EndFail, EndOver, objectVars, eventVars
  <2>2. CASE EndWake(t)
    <3>1. \A u \in Thread : error'[u] = "ERROR" \/ stat'[u] = stat[u]
      BY <2>2 DEF EndWake, Resume
    <3>2. \A u \in Served : FALSE
      BY <1>0, <3>1 DEF Served
    <3> QED
      BY <2>1, <3>2
  <2>3. CASE ~EndWake(t)
    <3>1. UNCHANGED stat
      BY <1>7, <2>3 DEF EndStep, Detach, EndTest, EndFail, EndOver, threadVars
    <3> QED
      BY <1>1, <2>1, <3>1
  <2> QED
    BY <2>2, <2>3
<1>8. CASE Create
  BY <1>8 DEF Create, EventFresh
<1>9. CASE UNCHANGED vars
  BY <1>1, <1>9 DEF vars, threadVars, objectVars, eventVars
<1> QED
  BY <1>3, <1>4, <1>5, <1>6, <1>7, <1>8, <1>9 DEF Next, EndStep

(* rt_event_send: a waiter gets what it asked for of what was posted, two   *)
(* that clear it never the same, and what nobody cleared is kept.           *)
THEOREM EventsAreTakenOnce == Spec => EventsTakenOnce
<1>1. IInv /\ Asks /\ [Next]_vars
        => [posted' # {} /\ (posted' # posted \/ Served # {}) => TakenOnce]_vars
  BY OthersServeNobody
<1>2. IInv /\ Asks /\ [Next]_vars =>
        [posted' # {} /\ (posted' # posted \/ Served # {}) =>
       /\ \A t \in Served : /\ eventSet'[t] # {}
                            /\ eventSet'[t] \subseteq asked[t] \intersect posted'
                            /\ info[t].all => eventSet'[t] = asked[t]
       /\ \A t, u \in Takers : t # u => eventSet'[t] \intersect eventSet'[u] = {}
       /\ set' = posted' \ UNION {eventSet'[t] : t \in Takers}]_vars
  BY <1>1 DEF TakenOnce
<1> QED
  BY <1>2, AsksHolds, PTL DEF Spec, EventsTakenOnce
=============================================================================
