-------------------------- MODULE SchedulerProofs --------------------------
(***************************************************************************)
(* Proofs about the scheduler of a hart, for every set of threads, every    *)
(* number of priorities and every assignment of them: the ready table is    *)
(* exact, the hart's thread is the one that is running, the counters that   *)
(* lock the scheduler are balanced, and a switch takes the right thread.    *)
(*                                                                         *)
(* They hold of programs that delete another thread only with the scheduler *)
(* locked and while its timer is stopped (DeleteLocked); what goes wrong    *)
(* otherwise is the run Scheduler_delete.  That a closed thread stays       *)
(* closed needs EndsAlone too: without it a stale resume or suspend takes   *)
(* the thread off the defunct list again (thread.c:820, 869).               *)
(***************************************************************************)
EXTENDS Scheduler, IntrusiveListProofs, FiniteSetTheorems,
        WellFoundedInduction

-----------------------------------------------------------------------------
(* The inductive invariant *)

\* The ready table rd holds the threads of R, each once, at its level of pr.
Table(rd, R, pr) ==
  /\ rd \in [queue : [Level -> Seq(Thread)], group : SUBSET Level]
  /\ \A l \in Level : Distinct(rd.queue[l])
  /\ \A l \in Level : l \in rd.group <=> rd.queue[l] # <<>>
  /\ \A l \in Level, t \in Thread :
       t \in Members(rd.queue[l]) <=> t \in R /\ pr[t] = l

\* The threads that belong in the ready table when st is stat.
ReadySet(st) == {t \in Thread : st[t] = "READY" /\ ~Leaving(t)}

TableHolds == Table(ready, ReadySet(stat), prio)

\* The hart's thread runs, or waits or has ended and has not left the hart
\* yet; one that ended stays only with the scheduler locked.
CurrentRunsOrWaits ==
  \A t \in Thread : t = current /\ stat[t] # "RUNNING" =>
    stat[t] = "SUSPEND" \/ (stat[t] = "CLOSE" /\ nest[t].crit > 0)

\* The idle thread is there to switch to.
IdleRuns ==
  /\ current = NoThread => stat[Idle] \in {"INIT", "READY"}
  /\ current # NoThread => stat[Idle] \in {"READY", "RUNNING"}

\* What t does, d, is possible: it is about another thread, and inside
\* rt_schedule it owes one enable or two.
Fits(t, d) ==
  /\ IF d.at \in Pending THEN d.who \in Thread \ {t, Idle}
                         ELSE d.who = NoThread
  /\ d.at = "return" => d.enables \in {1, 2}

DoingFits == \A t \in Thread : Fits(t, doing[t])

Deleting == {"remove", "untimer", "close"}

\* Only the hart's thread deletes another, with the scheduler locked, and the
\* other neither runs nor has a timer that could expire.
DeletesLocked ==
  \A t \in Thread : doing[t].at \in Deleting =>
    /\ t = current
    /\ nest[t].crit > 0
    /\ stat[doing[t].who] \in {"INIT", "READY", "SUSPEND"}
    /\ ~armed[doing[t].who]

IInv ==
  /\ TypeOK
  /\ NestsBalanced
  /\ RunningIsCurrent
  /\ TimeoutFindsSuspended
  /\ TableHolds
  /\ CurrentRunsOrWaits
  /\ IdleRuns
  /\ DoingFits
  /\ DeletesLocked
-----------------------------------------------------------------------------
(* The operations on the ready table *)

(* rt_schedule_insert_thread adds a thread to the table at its priority.    *)
LEMMA EnqueuedTable ==
  ASSUME NEW rd, NEW R \in SUBSET Thread, NEW pr \in [Thread -> Level],
         Table(rd, R, pr), NEW t \in Thread \ R
  PROVE  Table(Enqueued(rd, t, pr[t]), R \union {t}, pr)
<1> DEFINE p == pr[t]
           e == Enqueued(rd, t, p)
<1>1. p \in Level /\ t \in Thread
  OBVIOUS
<1>2. rd.queue \in [Level -> Seq(Thread)] /\ rd.group \in SUBSET Level
  BY DEF Table
<1>3. /\ e.queue = [rd.queue EXCEPT ![p] = Append(@, t)]
      /\ e.group = rd.group \union {p}
  BY DEF Enqueued
<1>4. /\ Append(rd.queue[p], t) \in Seq(Thread)
      /\ Members(Append(rd.queue[p], t)) = Members(rd.queue[p]) \union {t}
      /\ Distinct(Append(rd.queue[p], t))
      /\ Append(rd.queue[p], t) # <<>>
  <2>1. rd.queue[p] \in Seq(Thread) /\ Distinct(rd.queue[p])
    BY <1>1, <1>2 DEF Table
  <2>2. t \notin Members(rd.queue[p])
    BY <1>1 DEF Table
  <2> QED
    BY <1>1, <2>1, <2>2, AppendMembers, AppendProperties
<1> HIDE DEF p
<1>5. /\ e.queue[p] = Append(rd.queue[p], t)
      /\ \A l \in Level : l # p => e.queue[l] = rd.queue[l]
  BY <1>1, <1>2, <1>3
<1>6. e \in [queue : [Level -> Seq(Thread)], group : SUBSET Level]
  <2>1. e.queue \in [Level -> Seq(Thread)] /\ e.group \in SUBSET Level
    BY <1>1, <1>2, <1>3, <1>4
  <2> QED
    BY <2>1 DEF Enqueued
<1> HIDE DEF e
<1>7. \A l \in Level : Distinct(e.queue[l])
  BY <1>4, <1>5 DEF Table
<1>8. \A l \in Level : l \in e.group <=> e.queue[l] # <<>>
  BY <1>1, <1>3, <1>4, <1>5 DEF Table
<1>9. ASSUME NEW l \in Level, NEW u \in Thread
      PROVE  u \in Members(e.queue[l]) <=> u \in R \union {t} /\ pr[u] = l
  <2>1. CASE l = p
    BY <2>1, <1>4, <1>5 DEF Table, p
  <2>2. CASE l # p
    BY <2>2, <1>5 DEF Table, p
  <2> QED
    BY <2>1, <2>2
<1> QED
  BY <1>6, <1>7, <1>8, <1>9 DEF Table, e, p

\* The queues of a table without the node of t.
Unqueued(rd, t) == [l \in Level |-> Unlink(rd.queue[l], t)]

(* rt_list_remove takes the thread out of the one list it is in.            *)
LEMMA UnqueuedTable ==
  ASSUME NEW rd, NEW R \in SUBSET Thread, NEW pr \in [Thread -> Level],
         Table(rd, R, pr), NEW t \in Thread, NEW l \in Level
  PROVE  /\ Unqueued(rd, t)[l] \in Seq(Thread)
         /\ Distinct(Unqueued(rd, t)[l])
         /\ Members(Unqueued(rd, t)[l]) = Members(rd.queue[l]) \ {t}
         /\ t \notin Members(rd.queue[l]) => Unqueued(rd, t)[l] = rd.queue[l]
<1>1. rd.queue[l] \in Seq(Thread) /\ Distinct(rd.queue[l])
  BY DEF Table
<1>2. Unqueued(rd, t)[l] = Unlink(rd.queue[l], t)
  BY DEF Unqueued
<1> QED
  BY <1>1, <1>2, UnlinkProperties

(* rt_schedule_remove_thread takes a thread out of the table.               *)
LEMMA DequeuedTable ==
  ASSUME NEW rd, NEW R \in SUBSET Thread, NEW pr \in [Thread -> Level],
         Table(rd, R, pr), NEW t \in Thread
  PROVE  Table(Dequeued(rd, t, pr[t]), R \ {t}, pr)
<1> DEFINE p == pr[t]
           q == Unqueued(rd, t)
           d == Dequeued(rd, t, p)
<1>1. p \in Level /\ rd.group \in SUBSET Level
  BY DEF Table
<1>2. /\ q \in [Level -> Seq(Thread)]
      /\ \A l \in Level : /\ Distinct(q[l])
                          /\ Members(q[l]) = Members(rd.queue[l]) \ {t}
                          /\ l # p => q[l] = rd.queue[l]
  <2>1. q = [l \in Level |-> q[l]]
    BY DEF Unqueued
  <2>2. \A l \in Level : q[l] \in Seq(Thread)
    BY UnqueuedTable
  <2>3. q \in [Level -> Seq(Thread)]
    BY <2>1, <2>2
  <2>4. ASSUME NEW l \in Level
        PROVE  /\ Distinct(q[l])
               /\ Members(q[l]) = Members(rd.queue[l]) \ {t}
               /\ l # p => q[l] = rd.queue[l]
    <3>1. l # pr[t] => t \notin Members(rd.queue[l])
      BY DEF Table
    <3> QED
      BY <3>1, UnqueuedTable
  <2> QED
    BY <2>3, <2>4
<1>3. d = [queue |-> q,
           group |-> IF q[p] = <<>> THEN rd.group \ {p} ELSE rd.group]
  BY DEF Dequeued, Unqueued
<1> HIDE DEF p, q
<1>4. /\ d.queue = q
      /\ d.group = IF q[p] = <<>> THEN rd.group \ {p} ELSE rd.group
      /\ d \in [queue : [Level -> Seq(Thread)], group : SUBSET Level]
  BY <1>1, <1>2, <1>3
<1> HIDE DEF d
<1>5. \A l \in Level : l \in d.group <=> d.queue[l] # <<>>
  <2>1. q[p] # <<>> => rd.queue[p] # <<>>
    <3>1. Members(q[p]) \subseteq Members(rd.queue[p])
      BY <1>1, <1>2
    <3>2. q[p] \in Seq(Thread) /\ rd.queue[p] \in Seq(Thread)
      BY <1>1, <1>2 DEF Table
    <3>3. Members(q[p]) # {} => Members(rd.queue[p]) # {}
      BY <3>1
    <3>4. Members(q[p]) = {} <=> q[p] = <<>>
      BY <3>2, NoMembers
    <3>5. Members(rd.queue[p]) = {} <=> rd.queue[p] = <<>>
      BY <3>2, NoMembers
    <3> QED
      BY <3>3, <3>4, <3>5
  <2> QED
    BY <2>1, <1>1, <1>2, <1>4, SMTT(30) DEF Table
<1>6. ASSUME NEW l \in Level, NEW u \in Thread
      PROVE  u \in Members(d.queue[l]) <=> u \in R \ {t} /\ pr[u] = l
  BY <1>2, <1>4 DEF Table
<1> QED
  BY <1>2, <1>4, <1>5, <1>6 DEF Table, d, p

(* rt_list_remove alone does nothing to a thread that is in no list.        *)
LEMMA UnlinkedTable ==
  ASSUME NEW rd, NEW R \in SUBSET Thread, NEW pr \in [Thread -> Level],
         Table(rd, R, pr), NEW t \in Thread \ R
  PROVE  Unlinked(rd, t) = rd
<1>1. /\ rd \in [queue : [Level -> Seq(Thread)], group : SUBSET Level]
      /\ rd.queue \in [Level -> Seq(Thread)]
  BY DEF Table
<1>2. ASSUME NEW l \in Level PROVE Unqueued(rd, t)[l] = rd.queue[l]
  <2>1. t \notin Members(rd.queue[l])
    BY DEF Table
  <2> QED
    BY <2>1, UnqueuedTable
<1>3. Unqueued(rd, t) = rd.queue
  BY <1>1, <1>2 DEF Unqueued
<1>4. Unlinked(rd, t) = [queue |-> Unqueued(rd, t), group |-> rd.group]
  BY DEF Unlinked, Unqueued
<1> QED
  BY <1>1, <1>3, <1>4

(* rt_list_remove and rt_schedule_insert_thread: afterwards the thread is   *)
(* in the table, whether it was before or not.                              *)
LEMMA RelinkedTable ==
  ASSUME NEW rd, NEW R \in SUBSET Thread, NEW pr \in [Thread -> Level],
         Table(rd, R, pr), NEW t \in Thread
  PROVE  Table(Enqueued(Unlinked(rd, t), t, pr[t]), R \union {t}, pr)
<1> DEFINE d == Dequeued(rd, t, pr[t])
           u == Unlinked(rd, t)
<1>1. pr[t] \in Level
  OBVIOUS
<1>2. Table(Enqueued(d, t, pr[t]), R \union {t}, pr)
  <2>1. Table(d, R \ {t}, pr) /\ t \in Thread \ (R \ {t})
    BY DequeuedTable
  <2>2. Table(Enqueued(d, t, pr[t]), (R \ {t}) \union {t}, pr)
    BY <2>1, EnqueuedTable
  <2>3. (R \ {t}) \union {t} = R \union {t}
    OBVIOUS
  <2> QED
    BY <2>2, <2>3
<1>3. u.queue = d.queue /\ u.group = rd.group
  BY DEF Unlinked, Dequeued, Table
<1>4. d.group \union {pr[t]} = rd.group \union {pr[t]}
  BY DEF Dequeued
<1>5. Enqueued(u, t, pr[t]) = Enqueued(d, t, pr[t])
  BY <1>3, <1>4 DEF Enqueued
<1> QED
  BY <1>2, <1>5

(* The priority of a thread outside the table does not matter to it.        *)
LEMMA PriorityTable ==
  ASSUME NEW rd, NEW R \in SUBSET Thread, NEW pr, NEW pw,
         Table(rd, R, pr), \A t \in R : pw[t] = pr[t]
  PROVE  Table(rd, R, pw)
BY DEF Table

(* The least level of the bitmap, which __rt_ffs finds.                     *)
LEMMA LeastLevel ==
  ASSUME NEW G \in SUBSET Level, G # {}
  PROVE  \E p \in G : \A q \in G : p <= q
<1>1. G \subseteq Nat
  BY SchedulerConstants DEF Level
<1>2. PICK p \in G : \A q \in G : ~(<<q, p>> \in OpToRel(<, Nat))
  BY <1>1, NatLessThanWellFounded, WFMin, Zenon
<1>3. \A q \in G : ~(q < p)
  BY <1>1, <1>2 DEF OpToRel
<1> QED
  BY <1>1, <1>3

(* _scheduler_get_highest_priority_thread finds a thread of the table, and  *)
(* no thread there is more urgent.                                          *)
LEMMA HighestTable ==
  ASSUME NEW rd, NEW R \in SUBSET Thread, NEW pr \in [Thread -> Level],
         Table(rd, R, pr), rd.group # {}
  PROVE  /\ HighestLevel(rd) \in Level
         /\ Highest(rd) \in R
         /\ pr[Highest(rd)] = HighestLevel(rd)
         /\ Highest(rd) = rd.queue[HighestLevel(rd)][1]
         /\ \A t \in R : HighestLevel(rd) <= pr[t]
<1> DEFINE p == HighestLevel(rd)
           q == rd.queue[p]
<1>1. rd.group \in SUBSET Level
  BY DEF Table
<1>2. p \in rd.group /\ \A l \in rd.group : p <= l
  <2>1. \E l \in rd.group : \A m \in rd.group : l <= m
    BY <1>1, LeastLevel
  <2> QED
    BY <2>1 DEF HighestLevel
<1> HIDE DEF p
<1>3. q \in Seq(Thread) /\ q # <<>> /\ Distinct(q)
  BY <1>1, <1>2 DEF Table
<1>4. Head(q) \in Members(q) /\ Head(q) \in Thread /\ Head(q) = q[1]
  BY <1>3, TailMembers, HeadTailProperties
<1>5. Head(q) \in R /\ pr[Head(q)] = p
  BY <1>1, <1>2, <1>4 DEF Table
<1>6. ASSUME NEW t \in R PROVE p <= pr[t]
  <2>1. pr[t] \in Level /\ t \in Members(rd.queue[pr[t]])
    BY DEF Table
  <2>2. rd.queue[pr[t]] \in Seq(Thread)
    BY <2>1 DEF Table
  <2>3. pr[t] \in rd.group
    BY <2>1, <2>2, NoMembers DEF Table
  <2> QED
    BY <1>2, <2>3
<1> QED
  BY <1>1, <1>2, <1>4, <1>5, <1>6 DEF Highest, p

(* The bitmap is empty only when the table is.                              *)
LEMMA SomeGroup ==
  ASSUME NEW rd, NEW R \in SUBSET Thread, NEW pr \in [Thread -> Level],
         Table(rd, R, pr), NEW t \in R
  PROVE  rd.group # {}
<1>1. pr[t] \in Level /\ t \in Members(rd.queue[pr[t]])
  BY DEF Table
<1>2. rd.queue[pr[t]] \in Seq(Thread)
  BY <1>1 DEF Table
<1> QED
  BY <1>1, <1>2, NoMembers DEF Table
-----------------------------------------------------------------------------
\* The values of doing[t] in TypeOK.
Doings == [at : Pending \union {"user", "schedule", "return"},
           enables : 0 .. 2, who : Thread \union {NoThread}]

(* The records that say what a thread is doing.                             *)
LEMMA DoingRecords ==
  /\ User \in Doings /\ User.at = "user" /\ User.who = NoThread
  /\ ToSchedule \in Doings /\ ToSchedule.at = "schedule" /\ ToSchedule.who = NoThread
  /\ \A n \in 0 .. 2 : /\ Return(n) \in Doings
                       /\ Return(n).at = "return"
                       /\ Return(n).enables = n
                       /\ Return(n).who = NoThread
  /\ \A k \in Pending, u \in Thread :
       About(k, u) \in Doings /\ About(k, u).at = k /\ About(k, u).who = u
BY DEF Doings, Doing, User, ToSchedule, Return, About

(* The invariant holds at boot. *)
LEMMA InitIInv == Init => IInv
<1> SUFFICES ASSUME Init PROVE IInv
  OBVIOUS
<1> USE SchedulerConstants DEF Init
<1>1. TypeOK
  <2>1. ready \in [queue : [Level -> Seq(Thread)], group : SUBSET Level]
    <3>1. [l \in Level |-> <<>>] \in [Level -> Seq(Thread)]
      OBVIOUS
    <3> QED
      BY <3>1
  <2>2. nest \in [Thread -> [cpus : Nat, sched : Nat, crit : Nat]]
    OBVIOUS
  <2>3. doing \in [Thread -> Doings]
    BY DoingRecords
  <2>4. prio \in [Thread -> Level] /\ remaining \in [Thread -> 1 .. InitTick]
    BY DEF Level
  <2> QED
    BY <2>1, <2>2, <2>3, <2>4 DEF TypeOK, Status, Doings
<1>2. NestsBalanced /\ RunningIsCurrent /\ TimeoutFindsSuspended
  BY DEF NestsBalanced, RunningIsCurrent, TimeoutFindsSuspended, User, Doing
<1>3. ReadySet(stat) = {}
  BY DEF ReadySet
<1>4. TableHolds
  <2>1. ready \in [queue : [Level -> Seq(Thread)], group : SUBSET Level]
    BY <1>1 DEF TypeOK
  <2>2. \A l \in Level : ready.queue[l] = <<>>
    BY DEF Level
  <2>3. Members(<<>>) = {} /\ Distinct(<<>>)
    BY DEF Members, Distinct
  <2> QED
    BY <1>3, <2>1, <2>2, <2>3 DEF TableHolds, Table
<1>5. CurrentRunsOrWaits /\ IdleRuns
  BY DEF CurrentRunsOrWaits, IdleRuns
<1>6. DoingFits /\ DeletesLocked
  BY DEF DoingFits, Fits, DeletesLocked, User, Doing, Pending, Deleting
<1> QED
  BY <1>1, <1>2, <1>4, <1>5, <1>6 DEF IInv

(* While the hart's thread deletes nobody, nobody is being deleted, and the *)
(* ready table holds every ready thread.                                    *)
LEMMA NobodyLeaves ==
  ASSUME IInv, NEW t \in Thread,
         current = NoThread \/ (current = t /\ doing[t].at \notin Deleting)
  PROVE  /\ \A u \in Thread : ~Leaving(u) /\ doing[u].at \notin Deleting
         /\ ReadySet(stat) = {u \in Thread : stat[u] = "READY"}
         /\ Table(ready, {u \in Thread : stat[u] = "READY"}, prio)
<1>1. \A u \in Thread : ~Leaving(u) /\ doing[u].at \notin Deleting
  BY SchedulerConstants DEF IInv, DeletesLocked, Deleting, Leaving
<1>2. ReadySet(stat) = {u \in Thread : stat[u] = "READY"}
  BY <1>1 DEF ReadySet
<1> QED
  BY <1>1, <1>2 DEF IInv, TableHolds

(* So it stays when that thread goes on to do something else.               *)
LEMMA NobodyLeavesNext ==
  ASSUME IInv, NEW t \in Thread,
         current = NoThread \/ (current = t /\ doing[t].at \notin Deleting),
         NEW d, d.at \notin Deleting, doing' = [doing EXCEPT ![t] = d]
  PROVE  /\ DeletesLocked'
         /\ ReadySet(stat)' = {u \in Thread : stat'[u] = "READY"}
<1>1. \A u \in Thread : doing[u].at \notin Deleting
  BY NobodyLeaves
<1>2. doing \in [Thread -> Doings]
  BY DEF IInv, TypeOK, Doings
<1>3. \A u \in Thread : doing'[u].at \notin Deleting
  BY <1>1, <1>2
<1>4. \A u \in Thread : ~Leaving(u)'
  BY <1>3 DEF Leaving, Deleting
<1> QED
  BY <1>3, <1>4 DEF DeletesLocked, ReadySet

\* The counters n of a thread that does d.
Balanced(n, d) ==
  LET k == IF d.at = "return" THEN d.enables ELSE 0
  IN  /\ n \in [cpus : Nat, sched : Nat, crit : Nat]
      /\ n.cpus = n.crit + k
      /\ n.sched = (IF n.crit + k = 0 THEN 0 ELSE 1) + n.crit

\* stat and ready as a call of the hart's thread t leaves them, st and rd,
\* while nobody is being deleted: the idle thread may run.
Prepared(t, st, rd, pr) ==
  /\ st \in [Thread -> Status]
  /\ Table(rd, {v \in Thread : st[v] = "READY"}, pr)
  /\ st[t] \in {"RUNNING", "SUSPEND", "CLOSE"}
  /\ st[Idle] \in {"READY", "RUNNING"}
  /\ \A v \in Thread : v # t => st[v] # "RUNNING"

\* The timers that stay started are those of threads that wait in st.
Timed(st) ==
  /\ armed' \in [Thread -> BOOLEAN]
  /\ \A v \in Thread : armed'[v] => st[v] = "SUSPEND"

\* A thread that did not leave the hart, with state x and counters n, does d.
MayStay(x, n, d) ==
  x = "RUNNING" \/ n.crit > 0 \/ (d.at = "schedule" /\ x = "SUSPEND")

(* A call after which the hart stays with its thread: the invariant holds   *)
(* when the ready table was kept and the thread may stay.                   *)
LEMMA HartStays ==
  ASSUME IInv, NEW t \in Thread, current = t,
         \A v \in Thread : v # t => doing[v].at \notin Deleting,
         NEW st, NEW rd, prio' \in [Thread -> Level],
         Prepared(t, st, rd, prio'), Timed(st),
         NEW d \in Doings, Fits(t, d), d.at \notin Deleting,
         NEW n, Balanced(n, d), MayStay(st[t], n, d),
         stat' = st, ready' = rd,
         doing' = [doing EXCEPT ![t] = d],
         nest' = [nest EXCEPT ![t] = n],
         yield' \in [Thread -> BOOLEAN],
         remaining' \in [Thread -> 1 .. InitTick],
         UNCHANGED <<oncpu, current, switchFlag>>
  PROVE  IInv'
<1>1. doing'[t] = d /\ \A v \in Thread : v # t => doing'[v] = doing[v]
  BY DEF IInv, TypeOK
<1>2. nest'[t] = n /\ \A v \in Thread : v # t => nest'[v] = nest[v]
  BY DEF IInv, TypeOK
<1>3. \A v \in Thread : doing'[v].at \notin Deleting /\ ~Leaving(v)'
  BY <1>1 DEF Leaving, Deleting
<1>4. DeletesLocked' /\ ReadySet(stat)' = {v \in Thread : st[v] = "READY"}
  BY <1>3 DEF DeletesLocked, ReadySet
<1>5. TableHolds'
  BY <1>4 DEF TableHolds, Prepared
<1>6. TypeOK'
  <2>1. ready' \in [queue : [Level -> Seq(Thread)], group : SUBSET Level]
    BY <1>5 DEF TableHolds, Table
  <2>2. nest' \in [Thread -> [cpus : Nat, sched : Nat, crit : Nat]]
    BY DEF IInv, TypeOK, Balanced
  <2>3. doing' \in [Thread -> Doings]
    BY DEF IInv, TypeOK, Doings
  <2> QED
    BY <2>1, <2>2, <2>3 DEF IInv, TypeOK, Prepared, Timed, Doings
<1>7. NestsBalanced'
  BY <1>1, <1>2 DEF NestsBalanced, IInv, Balanced
<1>8. RunningIsCurrent'
  <2>1. \A v \in Thread : oncpu'[v] <=> v = current'
    BY DEF IInv, RunningIsCurrent
  <2>2. st[t] # "RUNNING" => doing'[t].at = "schedule" \/ nest'[t].crit > 0
    BY <1>1, <1>2 DEF MayStay
  <2> QED
    BY <2>1, <2>2 DEF RunningIsCurrent, Prepared
<1>9. TimeoutFindsSuspended'
  BY DEF TimeoutFindsSuspended, Timed
<1>10. (CurrentRunsOrWaits /\ IdleRuns)'
  <2>1. st[t] # "RUNNING" => st[t] = "SUSPEND" \/ (st[t] = "CLOSE" /\ nest'[t].crit > 0)
    BY <1>2 DEF Prepared, MayStay
  <2> QED
    BY <2>1, SchedulerConstants DEF CurrentRunsOrWaits, IdleRuns, Prepared
<1>11. DoingFits'
  BY <1>1 DEF IInv, DoingFits
<1> QED
  BY <1>4, <1>5, <1>6, <1>7, <1>8, <1>9, <1>10, <1>11 DEF IInv

(* What the hart's thread leaves when it changes nothing.                   *)
LEMMA PreparedAsIs ==
  ASSUME IInv, NEW t \in Thread, current = t, doing[t].at \notin Deleting
  PROVE  /\ Prepared(t, stat, ready, prio)
         /\ armed' = armed => Timed(stat)
         /\ \A v \in Thread : v # t => doing[v].at \notin Deleting
         /\ prio \in [Thread -> Level]
<1>1. Table(ready, {v \in Thread : stat[v] = "READY"}, prio)
  BY NobodyLeaves
<1>2. stat[t] \in {"RUNNING", "SUSPEND", "CLOSE"}
  BY DEF IInv, CurrentRunsOrWaits
<1>3. stat[Idle] \in {"READY", "RUNNING"}
  BY SchedulerConstants DEF IInv, IdleRuns
<1>4. \A v \in Thread : v # t => stat[v] # "RUNNING"
  BY DEF IInv, RunningIsCurrent
<1>5. \A v \in Thread : doing[v].at \notin Deleting
  BY NobodyLeaves
<1> QED
  BY <1>1, <1>2, <1>3, <1>4, <1>5
  DEF Prepared, Timed, IInv, TypeOK, TimeoutFindsSuspended

(* A call that changes only what its thread does and its counters.          *)
LEMMA CallStep ==
  ASSUME IInv, NEW t \in Thread, current = t,
         doing[t].at \notin Deleting,
         NEW d \in Doings, Fits(t, d), d.at \notin Deleting,
         NEW n, Balanced(n, d), MayStay(stat[t], n, d),
         doing' = [doing EXCEPT ![t] = d],
         nest' = [nest EXCEPT ![t] = n],
         yield' \in [Thread -> BOOLEAN],
         remaining' \in [Thread -> 1 .. InitTick],
         UNCHANGED <<stat, prio, oncpu, armed, ready, current, switchFlag>>
  PROVE  IInv'
<1>1. Prepared(t, stat, ready, prio') /\ Timed(stat) /\ prio' \in [Thread -> Level]
  BY PreparedAsIs
<1>2. \A v \in Thread : v # t => doing[v].at \notin Deleting
  BY PreparedAsIs
<1> QED
  BY <1>1, <1>2, HartStays

(* The counters of the hart's thread outside rt_schedule.                   *)
LEMMA OwnNest ==
  ASSUME IInv, NEW t \in Thread, doing[t].at # "return"
  PROVE  /\ nest[t] \in [cpus : Nat, sched : Nat, crit : Nat]
         /\ nest[t].crit \in Nat
         /\ nest[t].cpus = nest[t].crit
         /\ nest[t].sched = (IF nest[t].crit = 0 THEN 0 ELSE 1) + nest[t].crit
BY DEF IInv, TypeOK, NestsBalanced

(* The hart's thread runs unless it is on its way into rt_schedule or has   *)
(* locked the scheduler.                                                    *)
LEMMA RunsOutside ==
  ASSUME IInv, NEW t \in Thread, current = t, doing[t].at # "schedule"
  PROVE  stat[t] = "RUNNING" \/ nest[t].crit > 0
BY DEF IInv, RunningIsCurrent

\* A thread switched away in rt_schedule has the hart again.
LEMMA ReturnFromScheduleStep ==
  ASSUME IInv, NEW t \in Thread, ReturnFromSchedule(t) PROVE IInv'
<1> DEFINE k == doing[t].enables
           n == EnableTimes(nest[t], k)
<1>1. /\ current = t /\ doing[t].at = "return"
      /\ stat[t] = "RUNNING" \/ nest[t].crit > 0
  BY RunsOutside DEF ReturnFromSchedule, Calls
<1>2. k \in {1, 2}
  BY <1>1 DEF IInv, DoingFits, Fits
<1>3. /\ nest[t] \in [cpus : Nat, sched : Nat, crit : Nat]
      /\ nest[t].cpus = nest[t].crit + k
      /\ nest[t].sched = 1 + nest[t].crit
  <2>1. nest[t] \in [cpus : Nat, sched : Nat, crit : Nat]
    BY DEF IInv, TypeOK
  <2>2. /\ nest[t].cpus = nest[t].crit + k
        /\ nest[t].sched = (IF nest[t].crit + k = 0 THEN 0 ELSE 1) + nest[t].crit
    BY <1>1 DEF IInv, NestsBalanced
  <2>3. nest[t].crit \in Nat /\ nest[t].crit + k # 0
    BY <1>2, <2>1
  <2> QED
    BY <2>1, <2>2, <2>3
<1>4. Balanced(n, User) /\ n.crit = nest[t].crit
  BY <1>2, <1>3, SMTT(30) DEF Balanced, EnableTimes, Enable, User, Doing
<1>5. /\ doing' = [doing EXCEPT ![t] = User]
      /\ nest' = [nest EXCEPT ![t] = n]
      /\ yield' \in [Thread -> BOOLEAN]
      /\ remaining' \in [Thread -> 1 .. InitTick]
      /\ UNCHANGED <<stat, prio, oncpu, armed, ready, current, switchFlag>>
  BY DEF ReturnFromSchedule, IInv, TypeOK
<1>6. User \in Doings /\ Fits(t, User) /\ User.at \notin Deleting
  BY DoingRecords DEF Fits, Pending, Deleting
<1> HIDE DEF n
<1>7. MayStay(stat[t], n, User)
  BY <1>1, <1>4 DEF MayStay
<1> QED
  BY <1>1, <1>4, <1>5, <1>6, <1>7, CallStep DEF Deleting

\* rt_enter_critical raises the counter of the section,
LEMMA EnterCriticalStep ==
  ASSUME IInv, NEW t \in Thread, EnterCritical(t) PROVE IInv'
<1> DEFINE n == [cpus |-> nest[t].cpus + 1,
                 crit |-> nest[t].crit + 1,
                 sched |-> IF nest[t].cpus = 0 THEN nest[t].sched + 2
                                               ELSE nest[t].sched + 1]
<1>1. current = t /\ doing[t].at = "user"
  BY DEF EnterCritical, Asks, Calls
<1>2. /\ doing \in [Thread -> Doings]
      /\ doing[t] \in Doings /\ Fits(t, doing[t])
  BY DEF IInv, TypeOK, Doings, DoingFits
<1>3. Balanced(n, doing[t]) /\ MayStay(stat[t], n, doing[t])
  BY <1>1, OwnNest DEF Balanced, MayStay
<1>4. /\ doing' = [doing EXCEPT ![t] = doing[t]]
      /\ yield' \in [Thread -> BOOLEAN]
      /\ remaining' \in [Thread -> 1 .. InitTick]
      /\ UNCHANGED <<stat, prio, oncpu, armed, ready, current, switchFlag>>
  BY <1>2 DEF EnterCritical, IInv, TypeOK
<1>5. nest' = [nest EXCEPT ![t] = n]
  BY DEF EnterCritical
<1> HIDE DEF n
<1> QED
  BY <1>1, <1>2, <1>3, <1>4, <1>5, CallStep DEF Deleting

\* rt_exit_critical lowers it, and calls rt_schedule at the outermost.
LEMMA ExitCriticalStep ==
  ASSUME IInv, NEW t \in Thread, ExitCritical(t) PROVE IInv'
<1> DEFINE sched == IF nest[t].cpus = 1 THEN nest[t].sched - 2
                                        ELSE nest[t].sched - 1
           n == [cpus |-> nest[t].cpus - 1,
                 crit |-> nest[t].crit - 1,
                 sched |-> IF sched <= 0 THEN 0 ELSE sched]
           d == IF sched <= 0 THEN ToSchedule ELSE doing[t]
<1>1. /\ current = t /\ doing[t].at = "user"
      /\ stat[t] \in {"RUNNING", "SUSPEND"}
      /\ nest[t].crit > 0
  BY DEF ExitCritical, Asks, Calls, IInv, CurrentRunsOrWaits
<1>2. /\ doing \in [Thread -> Doings]
      /\ d \in Doings /\ Fits(t, d) /\ d.at \in {"schedule", "user"}
  BY <1>1, DoingRecords DEF IInv, TypeOK, Doings, DoingFits, Fits, Pending
<1>3. Balanced(n, d) /\ MayStay(stat[t], n, d)
  <2>1. d.at # "return"
    BY <1>2
  <2>2. /\ nest[t].crit \in Nat \ {0}
        /\ nest[t].cpus = nest[t].crit
        /\ nest[t].sched = 1 + nest[t].crit
    BY <1>1, OwnNest
  <2>3. n.crit > 0 \/ d.at = "schedule"
    BY <2>2, DoingRecords
  <2>4. MayStay(stat[t], n, d)
    BY <1>1, <2>3 DEF MayStay
  <2> HIDE DEF d
  <2> QED
    BY <2>1, <2>2, <2>4 DEF Balanced
<1>4. /\ doing' = [doing EXCEPT ![t] = d]
      /\ nest' = [nest EXCEPT ![t] = n]
  BY <1>2 DEF ExitCritical
<1>5. /\ yield' \in [Thread -> BOOLEAN]
      /\ remaining' \in [Thread -> 1 .. InitTick]
      /\ UNCHANGED <<stat, prio, oncpu, armed, ready, current, switchFlag>>
  BY DEF ExitCritical, IInv, TypeOK
<1> HIDE DEF n, d
<1> QED
  BY <1>1, <1>2, <1>3, <1>4, <1>5, CallStep DEF Deleting

(* A call that changes only where its thread stands.                        *)
LEMMA MoveStep ==
  ASSUME IInv, NEW t \in Thread, current = t,
         doing[t].at \notin Deleting \union {"return", "schedule"},
         NEW d \in Doings, Fits(t, d), d.at \notin Deleting \union {"return"},
         doing' = [doing EXCEPT ![t] = d],
         UNCHANGED <<stat, yield, prio, remaining, oncpu, armed, ready, current,
                     nest, switchFlag>>
  PROVE  IInv'
<1>1. /\ nest \in [Thread -> [cpus : Nat, sched : Nat, crit : Nat]]
      /\ nest' = [nest EXCEPT ![t] = nest[t]]
      /\ yield' \in [Thread -> BOOLEAN]
      /\ remaining' \in [Thread -> 1 .. InitTick]
  BY DEF IInv, TypeOK
<1>2. Balanced(nest[t], d) /\ MayStay(stat[t], nest[t], d)
  BY OwnNest, RunsOutside DEF Balanced, MayStay
<1> QED
  BY <1>1, <1>2, CallStep

(* rt_thread_resume and rt_thread_suspend, before interrupts are masked.    *)
LEMMA TestStep ==
  ASSUME IInv, NEW t \in Thread, NEW u \in Thread,
         ResumeTest(t, u) \/ SuspendTest(t, u)
  PROVE  IInv'
<1>1. current = t /\ doing[t].at = "user" /\ u \in Thread \ {t, Idle}
  BY SchedulerConstants DEF ResumeTest, SuspendTest, Asks, Calls
<1>2. PICK k \in {"resume", "suspend"} : doing' = [doing EXCEPT ![t] = About(k, u)]
  BY DEF ResumeTest, SuspendTest
<1>3. UNCHANGED <<stat, yield, prio, remaining, oncpu, armed, ready, current,
                  nest, switchFlag>>
  BY DEF ResumeTest, SuspendTest
<1>4. /\ About(k, u) \in Doings /\ Fits(t, About(k, u))
      /\ About(k, u).at = k
  BY <1>1, DoingRecords DEF Fits, Pending
<1> QED
  BY <1>1, <1>2, <1>3, <1>4, MoveStep DEF Deleting

(* The test of rt_thread_resume in rt_thread_startup.                       *)
LEMMA StartTestStep ==
  ASSUME IInv, NEW t \in Thread, StartTest(t) PROVE IInv'
<1> DEFINE u == doing[t].who
           d == IF stat[u] = "SUSPEND" THEN About("startResume", u) ELSE ToSchedule
<1>1. current = t /\ doing[t].at = "start"
  BY DEF StartTest, Calls
<1>2. u \in Thread \ {t, Idle}
  BY <1>1 DEF IInv, DoingFits, Fits, Pending
<1>3. /\ doing' = [doing EXCEPT ![t] = d]
      /\ UNCHANGED <<stat, yield, prio, remaining, oncpu, armed, ready, current,
                     nest, switchFlag>>
  BY DEF StartTest
<1>4. d \in Doings /\ Fits(t, d) /\ d.at \in {"startResume", "schedule"}
  BY <1>2, DoingRecords DEF Fits, Pending
<1> HIDE DEF d
<1> QED
  BY <1>1, <1>3, <1>4, MoveStep DEF Deleting

(* A call about another thread u that gives it the state x, or about the    *)
(* caller itself, after which the hart stays with the caller.               *)
LEMMA ChangeStep ==
  ASSUME IInv, NEW t \in Thread, current = t, NEW u \in Thread \ {Idle},
         doing[t].at \notin Deleting \union {"return", "schedule"},
         NEW x \in {"READY", "SUSPEND"}, u = t => x = "SUSPEND",
         NEW d \in Doings, Fits(t, d), d.at \notin Deleting \union {"return"},
         u = t => d.at = "schedule",
         NEW rd, ready' = rd, prio' \in [Thread -> Level],
         stat' = [stat EXCEPT ![u] = x],
         Table(rd, {v \in Thread : stat'[v] = "READY"}, prio'),
         armed' \in [Thread -> BOOLEAN],
         \A v \in Thread : armed'[v] => stat'[v] = "SUSPEND",
         doing' = [doing EXCEPT ![t] = d],
         UNCHANGED <<yield, remaining, oncpu, current, nest, switchFlag>>
  PROVE  IInv'
<1> DEFINE st == [stat EXCEPT ![u] = x]
<1>1. /\ Prepared(t, stat, ready, prio)
      /\ \A v \in Thread : v # t => doing[v].at \notin Deleting
  BY PreparedAsIs
<1>2. /\ st \in [Thread -> Status] /\ st[u] = x /\ stat' = st
      /\ \A v \in Thread : v # u => st[v] = stat[v]
  BY DEF IInv, TypeOK, Status
<1>3. /\ nest' = [nest EXCEPT ![t] = nest[t]]
      /\ yield' \in [Thread -> BOOLEAN]
      /\ remaining' \in [Thread -> 1 .. InitTick]
  BY DEF IInv, TypeOK
<1> HIDE DEF st
<1>4. Prepared(t, st, rd, prio')
  <2>1. Table(rd, {v \in Thread : st[v] = "READY"}, prio')
    BY <1>2
  <2>2. st[t] \in {"RUNNING", "SUSPEND", "CLOSE"}
    BY <1>1, <1>2 DEF Prepared
  <2>3. st[Idle] \in {"READY", "RUNNING"}
    BY <1>1, <1>2, SchedulerConstants DEF Prepared
  <2>4. \A v \in Thread : v # t => st[v] # "RUNNING"
    BY <1>1, <1>2 DEF Prepared
  <2> QED
    BY <1>2, <2>1, <2>2, <2>3, <2>4 DEF Prepared
<1>5. Timed(st)
  BY <1>2 DEF Timed
<1>6. Balanced(nest[t], d)
  BY OwnNest DEF Balanced
<1>7. MayStay(st[t], nest[t], d)
  <2>1. CASE u = t
    BY <1>2, <2>1 DEF MayStay
  <2>2. CASE u # t
    BY <1>2, <2>2, RunsOutside DEF MayStay
  <2> QED
    BY <2>1, <2>2
<1> QED
  BY <1>1, <1>2, <1>3, <1>4, <1>5, <1>6, <1>7, HartStays

(* rt_thread_suspend of the caller.                                         *)
LEMMA BlockStep ==
  ASSUME IInv, NEW t \in Thread, NEW timed \in BOOLEAN, Block(t, timed)
  PROVE  IInv'
<1> DEFINE R == {v \in Thread : stat[v] = "READY"}
<1>1. /\ current = t /\ doing[t].at = "user"
      /\ t \in Thread \ {Idle}
      /\ prio \in [Thread -> Level]
  BY DEF Block, Asks, Calls, IInv, TypeOK
<1>2. /\ stat' = [stat EXCEPT ![t] = "SUSPEND"]
      /\ ready' = IF stat[t] = "RUNNING" THEN Dequeued(ready, t, prio[t]) ELSE ready
      /\ armed' = [armed EXCEPT ![t] = timed]
      /\ doing' = [doing EXCEPT ![t] = ToSchedule]
      /\ UNCHANGED <<yield, prio, remaining, oncpu, current, nest, switchFlag>>
  BY DEF Block
<1>3. ToSchedule \in Doings /\ ToSchedule.at = "schedule" /\ Fits(t, ToSchedule)
  BY DoingRecords DEF Fits, Pending
<1>4. Table(ready', R \ {t}, prio)
  <2>1. Table(ready, R, prio) /\ R \in SUBSET Thread
    BY <1>1, NobodyLeaves DEF Deleting
  <2>2. CASE stat[t] = "RUNNING"
    <3> HIDE DEF R
    <3>1. Table(Dequeued(ready, t, prio[t]), R \ {t}, prio)
      BY <1>1, <2>1, DequeuedTable
    <3> QED
      BY <1>2, <2>2, <3>1
  <2>3. CASE stat[t] # "RUNNING"
    <3>1. t \notin R
      BY <1>1 DEF IInv, CurrentRunsOrWaits
    <3>2. R \ {t} = R
      BY <3>1
    <3> QED
      BY <1>2, <2>1, <2>3, <3>2
  <2> QED
    BY <2>2, <2>3
<1>5. /\ stat'[t] = "SUSPEND" /\ \A v \in Thread : v # t => stat'[v] = stat[v]
      /\ armed' \in [Thread -> BOOLEAN]
      /\ \A v \in Thread : v # t => armed'[v] = armed[v]
  BY <1>2 DEF IInv, TypeOK
<1>6. \A v \in Thread : armed'[v] => stat'[v] = "SUSPEND"
  BY <1>5 DEF IInv, TimeoutFindsSuspended
<1>7. {v \in Thread : stat'[v] = "READY"} = R \ {t}
  BY <1>5
<1>8. Table(ready', {v \in Thread : stat'[v] = "READY"}, prio')
  BY <1>2, <1>4, <1>7
<1> QED
  BY <1>1, <1>2, <1>3, <1>5, <1>6, <1>8, ChangeStep DEF Deleting

(* rt_thread_resume, once interrupts are masked.                            *)
LEMMA ResumeCommitStep ==
  ASSUME IInv, NEW t \in Thread, ResumeCommit(t) PROVE IInv'
<1> DEFINE u == doing[t].who
           R == {v \in Thread : stat[v] = "READY"}
<1>1. /\ current = t /\ doing[t].at \in {"resume", "startResume"}
      /\ prio \in [Thread -> Level]
  BY DEF ResumeCommit, IInv, TypeOK
<1>2. u \in Thread \ {t, Idle}
  BY <1>1 DEF IInv, DoingFits, Fits, Pending
<1>3. oncpu[u] = FALSE
  BY <1>1, <1>2 DEF IInv, RunningIsCurrent, TypeOK
<1>4. PICK d \in {User, ToSchedule} : doing' = [doing EXCEPT ![t] = d]
  BY <1>1 DEF ResumeCommit, AfterResume
<1>5. /\ stat' = [stat EXCEPT ![u] = "READY"]
      /\ ready' = Enqueued(Unlinked(ready, u), u, prio[u])
      /\ armed' = [armed EXCEPT ![u] = FALSE]
      /\ UNCHANGED <<yield, prio, remaining, oncpu, current, nest, switchFlag>>
  BY <1>3 DEF ResumeCommit, Insert
<1>6. d \in Doings /\ d.at \in {"user", "schedule"} /\ Fits(t, d)
  BY <1>4, DoingRecords DEF Fits, Pending
<1>7. Table(ready', R \union {u}, prio)
  <2>1. Table(ready, R, prio) /\ R \in SUBSET Thread
    BY <1>1, NobodyLeaves DEF Deleting
  <2> HIDE DEF R
  <2>2. Table(Enqueued(Unlinked(ready, u), u, prio[u]), R \union {u}, prio)
    BY <1>1, <1>2, <2>1, RelinkedTable
  <2> QED
    BY <1>5, <2>2
<1> HIDE DEF u
<1>8. /\ stat'[u] = "READY" /\ \A v \in Thread : v # u => stat'[v] = stat[v]
      /\ armed' \in [Thread -> BOOLEAN] /\ ~armed'[u]
      /\ \A v \in Thread : v # u => armed'[v] = armed[v]
  BY <1>2, <1>5 DEF IInv, TypeOK
<1>9. \A v \in Thread : armed'[v] => stat'[v] = "SUSPEND"
  BY <1>8 DEF IInv, TimeoutFindsSuspended
<1>10. {v \in Thread : stat'[v] = "READY"} = R \union {u}
  BY <1>2, <1>8
<1>11. Table(ready', {v \in Thread : stat'[v] = "READY"}, prio')
  BY <1>5, <1>7, <1>10
<1> QED
  BY <1>1, <1>2, <1>4, <1>5, <1>6, <1>8, <1>9, <1>11, ChangeStep DEF Deleting

(* rt_thread_suspend of another thread, once interrupts are masked.         *)
LEMMA SuspendCommitStep ==
  ASSUME IInv, NEW t \in Thread, SuspendCommit(t) PROVE IInv'
<1> DEFINE u == doing[t].who
           R == {v \in Thread : stat[v] = "READY"}
<1>1. /\ current = t /\ doing[t].at = "suspend"
      /\ u \in Thread \ {t, Idle}
      /\ prio \in [Thread -> Level]
  BY DEF SuspendCommit, Calls, IInv, DoingFits, Fits, Pending, TypeOK
<1>2. /\ stat' = [stat EXCEPT ![u] = "SUSPEND"]
      /\ ready' = Dequeued(ready, u, prio[u])
      /\ armed' = [armed EXCEPT ![u] = FALSE]
      /\ doing' = [doing EXCEPT ![t] = User]
      /\ UNCHANGED <<yield, prio, remaining, oncpu, current, nest, switchFlag>>
  BY <1>1 DEF SuspendCommit
<1>3. User \in Doings /\ User.at = "user" /\ Fits(t, User)
  BY DoingRecords DEF Fits, Pending
<1>4. Table(ready', R \ {u}, prio)
  <2>1. Table(ready, R, prio) /\ R \in SUBSET Thread
    BY <1>1, NobodyLeaves DEF Deleting
  <2> HIDE DEF R
  <2>2. Table(Dequeued(ready, u, prio[u]), R \ {u}, prio)
    BY <1>1, <2>1, DequeuedTable
  <2> QED
    BY <1>2, <2>2
<1> HIDE DEF u
<1>5. /\ stat'[u] = "SUSPEND" /\ \A v \in Thread : v # u => stat'[v] = stat[v]
      /\ armed' \in [Thread -> BOOLEAN]
      /\ \A v \in Thread : v # u => armed'[v] = armed[v]
  BY <1>1, <1>2 DEF IInv, TypeOK
<1>6. \A v \in Thread : armed'[v] => stat'[v] = "SUSPEND"
  BY <1>5 DEF IInv, TimeoutFindsSuspended
<1>7. {v \in Thread : stat'[v] = "READY"} = R \ {u}
  BY <1>5
<1>8. Table(ready', {v \in Thread : stat'[v] = "READY"}, prio')
  BY <1>2, <1>4, <1>7
<1> QED
  BY <1>1, <1>2, <1>3, <1>5, <1>6, <1>8, ChangeStep DEF Deleting

(* RT_THREAD_CTRL_CHANGE_PRIORITY.                                          *)
LEMMA ChangePriorityStep ==
  ASSUME IInv, NEW t \in Thread, NEW u \in Thread, NEW p \in Level,
         ChangePriority(t, u, p)
  PROVE  IInv'
<1> DEFINE R == {v \in Thread : stat[v] = "READY"}
<1>1. /\ current = t /\ doing[t].at = "user"
      /\ prio \in [Thread -> Level]
      /\ prio' = [prio EXCEPT ![u] = p]
      /\ prio' \in [Thread -> Level] /\ prio'[u] = p
      /\ \A v \in Thread : v # u => prio'[v] = prio[v]
  BY DEF ChangePriority, Asks, Calls, IInv, TypeOK
<1>2. UNCHANGED <<stat, yield, remaining, oncpu, armed, current, nest,
                  switchFlag, doing>>
  BY DEF ChangePriority
<1>3. doing' = [doing EXCEPT ![t] = doing[t]]
  BY <1>2 DEF IInv, TypeOK
<1>4. DeletesLocked' /\ ReadySet(stat)' = R
  BY <1>1, <1>2, <1>3, NobodyLeavesNext DEF Deleting
<1>5. Table(ready', R, prio')
  <2>1. Table(ready, R, prio)
    BY <1>1, NobodyLeaves DEF Deleting
  <2>2. CASE u \in R
    <3> DEFINE rd == Dequeued(ready, u, prio[u])
    <3>1. Table(rd, R \ {u}, prio)
      BY <1>1, <2>1, DequeuedTable
    <3>2. Table(rd, R \ {u}, prio')
      BY <1>1, <3>1, PriorityTable
    <3> HIDE DEF rd
    <3>3. Table(Enqueued(rd, u, prio'[u]), (R \ {u}) \union {u}, prio')
      BY <1>1, <3>2, EnqueuedTable
    <3>4. (R \ {u}) \union {u} = R
      BY <2>2
    <3>5. ready' = Enqueued(rd, u, prio'[u])
      BY <1>1, <2>2 DEF ChangePriority, rd
    <3> QED
      BY <3>3, <3>4, <3>5
  <2>3. CASE u \notin R
    <3>1. ready' = ready
      BY <2>3 DEF ChangePriority
    <3>2. \A v \in R : prio'[v] = prio[v]
      BY <1>1, <2>3
    <3> QED
      BY <2>1, <3>1, <3>2, PriorityTable
  <2> QED
    BY <2>2, <2>3
<1>6. TableHolds'
  BY <1>4, <1>5 DEF TableHolds
<1>7. TypeOK'
  BY <1>1, <1>2, <1>5 DEF IInv, TypeOK, Table
<1>8. (NestsBalanced /\ RunningIsCurrent /\ TimeoutFindsSuspended)'
  BY <1>2 DEF IInv, NestsBalanced, RunningIsCurrent, TimeoutFindsSuspended
<1>9. (CurrentRunsOrWaits /\ IdleRuns /\ DoingFits)'
  BY <1>2 DEF IInv, CurrentRunsOrWaits, IdleRuns, DoingFits
<1> QED
  BY <1>4, <1>6, <1>7, <1>8, <1>9 DEF IInv

(* rt_thread_startup by a running thread: the state that rt_thread_resume   *)
(* then tests.                                                              *)
LEMMA StartupStep ==
  ASSUME IInv, NEW t \in Thread, NEW u \in Thread, Startup(t, u) PROVE IInv'
<1> DEFINE R == {v \in Thread : stat[v] = "READY"}
           d == About("start", u)
<1>1. /\ current = t /\ doing[t].at = "user"
      /\ stat[u] = "INIT"
  BY DEF Startup, Asks, Calls
<1>2. u \in Thread \ {t, Idle}
  BY <1>1, SchedulerConstants DEF IInv, CurrentRunsOrWaits, IdleRuns
<1>3. /\ stat' = [stat EXCEPT ![u] = "SUSPEND"]
      /\ prio' = [prio EXCEPT ![u] = InitPriority[u]]
      /\ doing' = [doing EXCEPT ![t] = d]
      /\ ready' = ready
      /\ UNCHANGED <<yield, remaining, oncpu, armed, current, nest, switchFlag>>
  BY DEF Startup
<1>4. d \in Doings /\ d.at = "start" /\ Fits(t, d)
  BY <1>2, DoingRecords DEF Fits, Pending
<1>5. prio' \in [Thread -> Level] /\ Table(ready', R \ {u}, prio')
  <2>1. Table(ready, R, prio) /\ R \in SUBSET Thread
    BY <1>1, NobodyLeaves DEF Deleting
  <2>2. /\ prio' \in [Thread -> Level]
        /\ \A v \in R : prio'[v] = prio[v]
    BY <1>1, <1>3, SchedulerConstants DEF IInv, TypeOK, Level
  <2>3. R \ {u} = R
    BY <1>1
  <2> HIDE DEF R
  <2>4. Table(ready, R, prio')
    BY <2>1, <2>2, PriorityTable
  <2> QED
    BY <1>3, <2>2, <2>3, <2>4
<1>6. /\ stat'[u] = "SUSPEND" /\ \A v \in Thread : v # u => stat'[v] = stat[v]
      /\ armed' \in [Thread -> BOOLEAN]
      /\ \A v \in Thread : armed'[v] = armed[v]
  BY <1>2, <1>3 DEF IInv, TypeOK
<1>7. \A v \in Thread : armed'[v] => stat'[v] = "SUSPEND"
  BY <1>6 DEF IInv, TimeoutFindsSuspended
<1>8. {v \in Thread : stat'[v] = "READY"} = R \ {u}
  BY <1>6
<1>9. Table(ready', {v \in Thread : stat'[v] = "READY"}, prio')
  BY <1>5, <1>8
<1> HIDE DEF d
<1> QED
  BY <1>1, <1>2, <1>3, <1>4, <1>5, <1>6, <1>7, <1>9, ChangeStep DEF Deleting

(* Before the scheduler runs nobody is being deleted. *)
LEMMA NobodyBeforeStart ==
  ASSUME IInv, current = NoThread
  PROVE  /\ \A u \in Thread : doing[u].at \notin Deleting
         /\ Table(ready, {u \in Thread : stat[u] = "READY"}, prio)
<1>1. \A u \in Thread : ~Leaving(u) /\ doing[u].at \notin Deleting
  BY SchedulerConstants DEF IInv, DeletesLocked, Deleting, Leaving
<1>2. ReadySet(stat) = {u \in Thread : stat[u] = "READY"}
  BY <1>1 DEF ReadySet
<1> QED
  BY <1>1, <1>2 DEF IInv, TableHolds

(* rt_thread_startup before the scheduler runs. *)
LEMMA BootStartupStep ==
  ASSUME IInv, NEW u \in Thread, BootStartup(u) PROVE IInv'
<1> DEFINE R == {v \in Thread : stat[v] = "READY"}
<1>1. current = NoThread /\ stat[u] = "INIT" /\ oncpu[u] = FALSE
  BY SchedulerConstants DEF BootStartup, IInv, RunningIsCurrent, TypeOK
<1>2. /\ stat' = [stat EXCEPT ![u] = "READY"]
      /\ ready' = Enqueued(Unlinked(ready, u), u, InitPriority[u])
      /\ prio' = [prio EXCEPT ![u] = InitPriority[u]]
      /\ UNCHANGED <<yield, remaining, oncpu, armed, current, nest, switchFlag,
                     doing>>
  BY <1>1 DEF BootStartup, Insert
<1>3. doing' = [doing EXCEPT ![u] = doing[u]]
  BY <1>2 DEF IInv, TypeOK
<1>4. DeletesLocked' /\ ReadySet(stat)' = {v \in Thread : stat'[v] = "READY"}
  <2>1. doing[u].at \notin Deleting
    BY <1>1, NobodyBeforeStart
  <2> QED
    BY <1>1, <1>3, <2>1, NobodyLeavesNext
<1>5. ReadySet(stat)' = R \union {u}
  BY <1>1, <1>2, <1>4 DEF IInv, TypeOK
<1>6. TableHolds'
  <2>1. Table(ready, R, prio)
    BY <1>1, NobodyBeforeStart
  <2>2. /\ prio' \in [Thread -> Level]
        /\ prio'[u] = InitPriority[u]
        /\ \A v \in R : prio'[v] = prio[v]
    BY <1>1, <1>2, SchedulerConstants DEF IInv, TypeOK, Level
  <2>3. Table(ready, R, prio')
    BY <2>1, <2>2, PriorityTable
  <2>4. Table(Enqueued(Unlinked(ready, u), u, prio'[u]), R \union {u}, prio')
    BY <2>2, <2>3, RelinkedTable
  <2> QED
    BY <1>2, <1>5, <2>2, <2>4 DEF TableHolds
<1>7. TypeOK'
  BY <1>1, <1>2, <1>6, SchedulerConstants
  DEF IInv, TypeOK, TableHolds, Table, Status, Level
<1>8. (NestsBalanced /\ RunningIsCurrent /\ TimeoutFindsSuspended)'
  BY <1>1, <1>2 DEF IInv, TypeOK, NestsBalanced, RunningIsCurrent, TimeoutFindsSuspended
<1>9. (CurrentRunsOrWaits /\ IdleRuns)'
  BY <1>1, <1>2 DEF IInv, TypeOK, CurrentRunsOrWaits, IdleRuns
<1>10. DoingFits'
  BY <1>2 DEF IInv, DoingFits
<1> QED
  BY <1>4, <1>6, <1>7, <1>8, <1>9, <1>10 DEF IInv

(* rt_system_scheduler_start. *)
LEMMA SchedulerStartStep == ASSUME IInv, SchedulerStart PROVE IInv'
<1> DEFINE R  == {v \in Thread : stat[v] = "READY"}
           to == Highest(ready)
<1>1. /\ current = NoThread /\ Idle \in R
      /\ prio \in [Thread -> Level]
  BY SchedulerConstants DEF SchedulerStart, IInv, TypeOK
<1>2. Table(ready, R, prio) /\ \A v \in Thread : doing[v].at \notin Deleting
  BY <1>1, NobodyBeforeStart
<1>3. to \in R
  BY <1>1, <1>2, SomeGroup, HighestTable
<1>4. /\ oncpu' = [oncpu EXCEPT ![to] = TRUE]
      /\ ready' = Dequeued(ready, to, prio[to])
      /\ stat' = [stat EXCEPT ![to] = "RUNNING"]
      /\ current' = to
      /\ UNCHANGED <<yield, prio, remaining, armed, nest, switchFlag, doing>>
  BY DEF SchedulerStart
<1> HIDE DEF to
<1>5. doing' = [doing EXCEPT ![to] = doing[to]]
  BY <1>4 DEF IInv, TypeOK
<1>6. DeletesLocked' /\ ReadySet(stat)' = {v \in Thread : stat'[v] = "READY"}
  BY <1>1, <1>2, <1>3, <1>5, NobodyLeavesNext
<1>7. ReadySet(stat)' = R \ {to}
  BY <1>3, <1>4, <1>6 DEF IInv, TypeOK
<1>8. TableHolds'
  <2>1. Table(Dequeued(ready, to, prio[to]), R \ {to}, prio)
    BY <1>1, <1>2, <1>3, DequeuedTable
  <2> QED
    BY <1>4, <1>7, <2>1 DEF TableHolds
<1>9. TypeOK'
  BY <1>3, <1>4, <1>8 DEF IInv, TypeOK, TableHolds, Table, Status
<1>10. (NestsBalanced /\ RunningIsCurrent /\ TimeoutFindsSuspended)'
  BY <1>1, <1>3, <1>4, SchedulerConstants
  DEF IInv, TypeOK, NestsBalanced, RunningIsCurrent, TimeoutFindsSuspended
<1>11. (CurrentRunsOrWaits /\ IdleRuns)'
  BY <1>1, <1>3, <1>4, SchedulerConstants DEF IInv, TypeOK, CurrentRunsOrWaits, IdleRuns
<1>12. DoingFits'
  BY <1>4 DEF IInv, DoingFits
<1> QED
  BY <1>6, <1>8, <1>9, <1>10, <1>11, <1>12 DEF IInv

(* At most one thread deletes another: the hart's.                          *)
LEMMA OneDeletes ==
  ASSUME IInv, NEW t \in Thread, doing[t].at \in Deleting
  PROVE  /\ current = t /\ nest[t].crit > 0
         /\ doing[t].who \in Thread \ {t, Idle}
         /\ stat[doing[t].who] \in {"INIT", "READY", "SUSPEND"}
         /\ ~armed[doing[t].who]
         /\ \A v \in Thread : v # t => doing[v].at \notin Deleting
         /\ \A v \in Thread : Leaving(v) <=>
              v = doing[t].who /\ doing[t].at \in {"untimer", "close"}
<1>1. /\ current = t /\ nest[t].crit > 0
      /\ stat[doing[t].who] \in {"INIT", "READY", "SUSPEND"}
      /\ ~armed[doing[t].who]
      /\ \A v \in Thread : v # t => doing[v].at \notin Deleting
  BY DEF IInv, DeletesLocked
<1>2. doing[t].who \in Thread \ {t, Idle}
  BY DEF IInv, DoingFits, Fits, Deleting, Pending
<1>3. \A v \in Thread : Leaving(v) <=>
        v = doing[t].who /\ doing[t].at \in {"untimer", "close"}
  BY <1>1 DEF Leaving, Deleting
<1> QED
  BY <1>1, <1>2, <1>3

(* rt_thread_delete, the tests: with the scheduler locked, of a thread      *)
(* whose timer is stopped.                                                  *)
LEMMA DeleteTestStep ==
  ASSUME DeleteLocked = TRUE, IInv, NEW t \in Thread, NEW u \in Thread,
         DeleteTest(t, u)
  PROVE  IInv'
<1> DEFINE k == IF stat[u] = "INIT" THEN "untimer" ELSE "remove"
           d == About(k, u)
<1>1. /\ current = t /\ doing[t].at = "user"
      /\ u \in Thread \ {t, Idle}
      /\ nest[t].crit > 0 /\ ~armed[u]
      /\ stat[u] \in {"INIT", "READY", "SUSPEND"}
  <2>1. /\ current = t /\ doing[t].at = "user"
        /\ u \in Thread \ {t, Idle}
        /\ nest[t].crit > 0 /\ ~armed[u] /\ stat[u] # "CLOSE"
    BY SchedulerConstants DEF DeleteTest, Asks, Calls
  <2>2. stat[u] \in Status /\ stat[u] # "RUNNING"
    BY <2>1 DEF IInv, TypeOK, RunningIsCurrent
  <2> QED
    BY <2>1, <2>2 DEF Status
<1>2. /\ doing' = [doing EXCEPT ![t] = d]
      /\ UNCHANGED <<stat, yield, prio, remaining, oncpu, armed, ready,
                     current, nest, switchFlag>>
  BY DEF DeleteTest
<1>3. d \in Doings /\ Fits(t, d) /\ d.at = k /\ d.who = u
  BY <1>1, DoingRecords DEF Fits, Pending
<1>4. \A v \in Thread : ~Leaving(v) /\ doing[v].at \notin Deleting
  BY <1>1, NobodyLeaves DEF Deleting
<1> HIDE DEF d
<1>5. doing'[t] = d /\ \A v \in Thread : v # t => doing'[v] = doing[v]
  BY <1>2 DEF IInv, TypeOK
<1>6. DeletesLocked'
  BY <1>1, <1>2, <1>3, <1>4, <1>5 DEF DeletesLocked, Deleting
<1>7. TableHolds'
  <2>1. \A v \in Thread : Leaving(v)' => stat[v] = "INIT"
    BY <1>3, <1>4, <1>5 DEF Leaving, Deleting
  <2>2. ReadySet(stat)' = ReadySet(stat)
    BY <1>2, <1>4, <2>1 DEF ReadySet
  <2> QED
    BY <1>2, <2>2 DEF IInv, TableHolds
<1>8. TypeOK'
  BY <1>2, <1>3 DEF IInv, TypeOK, Doings
<1>9. (NestsBalanced /\ RunningIsCurrent /\ TimeoutFindsSuspended)'
  BY <1>1, <1>2, <1>3, <1>5
  DEF IInv, NestsBalanced, RunningIsCurrent, TimeoutFindsSuspended
<1>10. (CurrentRunsOrWaits /\ IdleRuns /\ DoingFits)'
  BY <1>2, <1>3, <1>5 DEF IInv, CurrentRunsOrWaits, IdleRuns, DoingFits
<1> QED
  BY <1>6, <1>7, <1>8, <1>9, <1>10 DEF IInv

(* rt_thread_delete: rt_schedule_remove_thread. *)
LEMMA DeleteRemoveStep ==
  ASSUME IInv, NEW t \in Thread, DeleteRemove(t) PROVE IInv'
<1> DEFINE u == doing[t].who
           R == {v \in Thread : stat[v] = "READY"}
<1>1. doing[t].at = "remove" /\ doing[t].at \in Deleting
  BY DEF DeleteRemove, Calls, Deleting
<1>2. /\ current = t /\ nest[t].crit > 0
      /\ u \in Thread \ {t, Idle}
      /\ stat[u] \in {"INIT", "READY", "SUSPEND"} /\ ~armed[u]
      /\ \A v \in Thread : v # t => doing[v].at \notin Deleting
      /\ \A v \in Thread : ~Leaving(v)
      /\ prio \in [Thread -> Level]
  BY <1>1, OneDeletes DEF IInv, TypeOK
<1>3. /\ ready' = Dequeued(ready, u, prio[u])
      /\ doing' = [doing EXCEPT ![t].at = "untimer"]
      /\ UNCHANGED <<stat, yield, prio, remaining, oncpu, armed, current, nest,
                     switchFlag>>
  BY DEF DeleteRemove
<1> HIDE DEF u
<1>4. /\ doing' \in [Thread -> Doings]
      /\ doing'[t].at = "untimer" /\ doing'[t].who = u
      /\ \A v \in Thread : v # t => doing'[v] = doing[v]
  BY <1>3, ZenonT(30) DEF IInv, TypeOK, Doings, Pending, u
<1>5. DeletesLocked'
  BY <1>2, <1>3, <1>4 DEF DeletesLocked, Deleting
<1>6. ReadySet(stat)' = R \ {u}
  <2>1. \A v \in Thread : Leaving(v)' <=> v = u
    BY <1>2, <1>4 DEF Leaving, Deleting
  <2> QED
    BY <1>3, <2>1 DEF ReadySet
<1>7. TableHolds'
  <2>1. ReadySet(stat) = R
    BY <1>2 DEF ReadySet
  <2>2. Table(ready, R, prio)
    BY <2>1 DEF IInv, TableHolds
  <2>3. Table(Dequeued(ready, u, prio[u]), R \ {u}, prio)
    BY <1>2, <2>2, DequeuedTable
  <2> QED
    BY <1>3, <1>6, <2>3 DEF TableHolds
<1>8. TypeOK'
  BY <1>3, <1>4, <1>7 DEF IInv, TypeOK, TableHolds, Table, Doings
<1>9. (NestsBalanced /\ RunningIsCurrent /\ TimeoutFindsSuspended)'
  BY <1>1, <1>2, <1>3, <1>4
  DEF IInv, NestsBalanced, RunningIsCurrent, TimeoutFindsSuspended
<1>10. (CurrentRunsOrWaits /\ IdleRuns)'
  BY <1>3 DEF IInv, CurrentRunsOrWaits, IdleRuns
<1>11. DoingFits'
  BY <1>2, <1>4 DEF IInv, DoingFits, Fits, Pending
<1> QED
  BY <1>5, <1>7, <1>8, <1>9, <1>10, <1>11 DEF IInv

(* rt_thread_delete: rt_timer_detach. *)
LEMMA DeleteUntimerStep ==
  ASSUME IInv, NEW t \in Thread, DeleteUntimer(t) PROVE IInv'
<1> DEFINE u == doing[t].who
<1>1. doing[t].at = "untimer" /\ doing[t].at \in Deleting
  BY DEF DeleteUntimer, Calls, Deleting
<1>2. /\ current = t /\ nest[t].crit > 0
      /\ u \in Thread \ {t, Idle}
      /\ stat[u] \in {"INIT", "READY", "SUSPEND"} /\ ~armed[u]
      /\ \A v \in Thread : v # t => doing[v].at \notin Deleting
      /\ \A v \in Thread : Leaving(v) <=> v = u
  BY <1>1, OneDeletes
<1>3. /\ armed' = [armed EXCEPT ![u] = FALSE]
      /\ doing' = [doing EXCEPT ![t].at = "close"]
      /\ UNCHANGED <<stat, yield, prio, remaining, oncpu, ready, current, nest,
                     switchFlag>>
  BY DEF DeleteUntimer
<1> HIDE DEF u
<1>4. /\ doing' \in [Thread -> Doings]
      /\ doing'[t].at = "close" /\ doing'[t].who = u
      /\ \A v \in Thread : v # t => doing'[v] = doing[v]
  BY <1>3, ZenonT(30) DEF IInv, TypeOK, Doings, Pending, u
<1>5. DeletesLocked'
  BY <1>2, <1>3, <1>4 DEF DeletesLocked, Deleting, IInv, TypeOK
<1>6. TableHolds'
  <2>1. \A v \in Thread : Leaving(v)' <=> v = u
    BY <1>2, <1>4 DEF Leaving, Deleting
  <2>2. ReadySet(stat)' = ReadySet(stat)
    BY <1>2, <1>3, <2>1 DEF ReadySet
  <2> QED
    BY <1>3, <2>2 DEF IInv, TableHolds
<1>7. TypeOK'
  BY <1>3, <1>4 DEF IInv, TypeOK, Doings
<1>8. (NestsBalanced /\ RunningIsCurrent /\ TimeoutFindsSuspended)'
  BY <1>1, <1>2, <1>3, <1>4, SMTT(30)
  DEF IInv, TypeOK, NestsBalanced, RunningIsCurrent, TimeoutFindsSuspended
<1>9. (CurrentRunsOrWaits /\ IdleRuns)'
  BY <1>3 DEF IInv, CurrentRunsOrWaits, IdleRuns
<1>10. DoingFits'
  BY <1>2, <1>4 DEF IInv, DoingFits, Fits, Pending
<1> QED
  BY <1>5, <1>6, <1>7, <1>8, <1>9, <1>10 DEF IInv

(* A wake-up adds a thread that waits to the table, unless it is the one    *)
(* that still has the hart.                                                 *)
LEMMA WokenPrepared ==
  ASSUME IInv, NEW t \in Thread, current = t, NEW st, NEW rd,
         Prepared(t, st, rd, prio), NEW u \in Thread, st[u] = "SUSPEND"
  PROVE  /\ Prepared(t, Woken(st, u), WokenReady(rd, u), prio)
         /\ \A v \in Thread : v # u => Woken(st, u)[v] = st[v]
         /\ Woken(st, u)[u] = IF u = t THEN "RUNNING" ELSE "READY"
<1> DEFINE R == {v \in Thread : st[v] = "READY"}
           w == Woken(st, u)
<1>1. /\ st \in [Thread -> Status]
      /\ Table(rd, R, prio)
      /\ prio \in [Thread -> Level]
      /\ oncpu[u] <=> u = t
      /\ u \in Thread \ R
  BY DEF Prepared, IInv, TypeOK, RunningIsCurrent
<1>2. /\ w \in [Thread -> Status]
      /\ w[u] = IF u = t THEN "RUNNING" ELSE "READY"
      /\ \A v \in Thread : v # u => w[v] = st[v]
  BY <1>1 DEF Woken, Status
<1>3. Unlinked(rd, u) = rd
  <2>1. R \in SUBSET Thread
    OBVIOUS
  <2> HIDE DEF R
  <2> QED
    BY <1>1, <2>1, UnlinkedTable
<1>4. Table(WokenReady(rd, u), {v \in Thread : w[v] = "READY"}, prio)
  <2>1. CASE u = t
    <3>1. {v \in Thread : w[v] = "READY"} = R /\ WokenReady(rd, u) = rd
      BY <1>1, <1>2, <1>3, <2>1 DEF WokenReady
    <3> QED
      BY <1>1, <3>1
  <2>2. CASE u # t
    <3>1. /\ {v \in Thread : w[v] = "READY"} = R \union {u}
          /\ WokenReady(rd, u) = Enqueued(rd, u, prio[u])
      BY <1>1, <1>2, <1>3, <2>2 DEF WokenReady
    <3>2. R \in SUBSET Thread
      OBVIOUS
    <3> HIDE DEF R, w
    <3>3. Table(Enqueued(rd, u, prio[u]), R \union {u}, prio)
      BY <1>1, <3>2, EnqueuedTable
    <3> QED
      BY <3>1, <3>3
  <2> QED
    BY <2>1, <2>2
<1> HIDE DEF w
<1>5. Prepared(t, w, WokenReady(rd, u), prio)
  <2>1. w[t] \in {"RUNNING", "SUSPEND", "CLOSE"}
    BY <1>2 DEF Prepared
  <2>2. w[Idle] \in {"READY", "RUNNING"}
    BY <1>2, SchedulerConstants DEF Prepared
  <2>3. \A v \in Thread : v # t => w[v] # "RUNNING"
    BY <1>2 DEF Prepared
  <2> QED
    BY <1>2, <1>4, <2>1, <2>2, <2>3 DEF Prepared
<1> QED
  BY <1>2, <1>5 DEF w

(* rt_schedule does not switch while the caller has locked the scheduler.   *)
LEMMA LockedSchedule ==
  ASSUME IInv, NEW t \in Thread, doing[t].at # "return", nest[t].crit > 0,
         NEW st, NEW yl, NEW rd, Schedule(t, st, yl, rd, 2)
  PROVE  /\ Nothing(st, yl, rd)
         /\ doing' = [doing EXCEPT ![t] = User]
         /\ UNCHANGED nest
<1>1. /\ nest[t].crit \in Nat \ {0}
      /\ nest[t].cpus = nest[t].crit
      /\ nest[t].sched = 1 + nest[t].crit
  BY OwnNest
<1>2. DisableTimes(nest[t], 2).sched # 1
  BY <1>1 DEF DisableTimes, Disable
<1> QED
  BY <1>2 DEF Schedule

(* rt_thread_delete: the thread becomes CLOSE, and the system thread is     *)
(* told.                                                                    *)
LEMMA DeleteCloseStep ==
  ASSUME IInv, NEW t \in Thread, DeleteClose(t)
  PROVE  /\ IInv'
         /\ current' = current
         /\ doing' = [doing EXCEPT ![t] = User]
         /\ \A v \in Thread : stat'[v] = "CLOSE" <=>
              stat[v] = "CLOSE" \/ v = doing[t].who
<1> DEFINE w  == doing[t].who
           st == [stat EXCEPT ![w] = "CLOSE"]
<1>1. doing[t].at = "close" /\ doing[t].at \in Deleting
  BY DEF DeleteClose, Calls, Deleting
<1>2. /\ current = t /\ nest[t].crit > 0
      /\ w \in Thread \ {t, Idle}
      /\ stat[w] \in {"INIT", "READY", "SUSPEND"} /\ ~armed[w]
      /\ \A v \in Thread : v # t => doing[v].at \notin Deleting
      /\ \A v \in Thread : Leaving(v) <=> v = w
  BY <1>1, OneDeletes
<1>3. prio \in [Thread -> Level] /\ stat \in [Thread -> Status]
  BY DEF IInv, TypeOK
<1>4. /\ st \in [Thread -> Status] /\ st[w] = "CLOSE"
      /\ \A v \in Thread : v # w => st[v] = stat[v]
  BY <1>2, <1>3 DEF Status
<1>5. Prepared(t, st, ready, prio)
  <2>1. ReadySet(stat) = {v \in Thread : st[v] = "READY"}
    BY <1>2, <1>4 DEF ReadySet
  <2>2. Table(ready, {v \in Thread : st[v] = "READY"}, prio)
    BY <2>1 DEF IInv, TableHolds
  <2>3. stat[t] \in {"RUNNING", "SUSPEND", "CLOSE"} /\ stat[Idle] \in {"READY", "RUNNING"}
    BY <1>2, SchedulerConstants DEF IInv, CurrentRunsOrWaits, IdleRuns
  <2>4. \A v \in Thread : v # t => stat[v] # "RUNNING"
    BY <1>2 DEF IInv, RunningIsCurrent
  <2> QED
    BY <1>2, <1>4, <2>2, <2>3, <2>4, SchedulerConstants DEF Prepared
<1>6. /\ User \in Doings /\ User.at = "user" /\ Fits(t, User)
      /\ User.at \notin Deleting
  BY DoingRecords DEF Fits, Pending, Deleting
<1>7. Balanced(nest[t], User) /\ \A x : MayStay(x, nest[t], User)
  BY <1>1, <1>2, <1>6, OwnNest DEF Balanced, MayStay
<1>8. /\ nest' = nest => nest' = [nest EXCEPT ![t] = nest[t]]
      /\ remaining' \in [Thread -> 1 .. InitTick]
      /\ UNCHANGED <<prio, remaining, switchFlag>>
      /\ yield \in [Thread -> BOOLEAN]
  BY DEF DeleteClose, IInv, TypeOK
<1>9. CASE /\ stat' = st
           /\ doing' = [doing EXCEPT ![t] = User]
           /\ UNCHANGED <<yield, oncpu, armed, ready, current, nest>>
  <2> HIDE DEF st, w
  <2>1. Timed(st)
    BY <1>2, <1>4, <1>9 DEF Timed, IInv, TypeOK, TimeoutFindsSuspended
  <2>2. IInv'
    BY <1>2, <1>3, <1>5, <1>6, <1>7, <1>8, <1>9, <2>1, HartStays
  <2> QED
    BY <1>4, <1>9, <2>2 DEF w
<1>10. ASSUME NEW u \in Thread, SystemThread(u),
              Schedule(t, Woken(st, u), yield, WokenReady(ready, u), 2),
              armed' = [armed EXCEPT ![u] = FALSE]
       PROVE  /\ IInv'
              /\ current' = current
              /\ doing' = [doing EXCEPT ![t] = User]
              /\ \A v \in Thread : stat'[v] = "CLOSE" <=> stat[v] = "CLOSE" \/ v = w
  <2> HIDE DEF st, w
  <2>1. u # w /\ st[u] = "SUSPEND"
    BY <1>2, <1>4, <1>10 DEF SystemThread
  <2> DEFINE x  == Woken(st, u)
             rd == WokenReady(ready, u)
  <2>2. /\ Prepared(t, x, rd, prio)
        /\ \A v \in Thread : v # u => x[v] = st[v]
        /\ x[u] \in {"RUNNING", "READY"}
    BY <1>2, <1>5, <2>1, WokenPrepared
  <2> HIDE DEF x, rd
  <2>3. /\ Nothing(x, yield, rd)
        /\ doing' = [doing EXCEPT ![t] = User]
        /\ UNCHANGED nest
    BY <1>1, <1>2, <1>10, LockedSchedule DEF x, rd
  <2>4. /\ stat' = x /\ ready' = rd /\ yield' \in [Thread -> BOOLEAN]
        /\ UNCHANGED <<oncpu, current>>
    BY <1>8, <2>3 DEF Nothing
  <2>5. Timed(x)
    BY <1>2, <1>4, <1>10, <2>1, <2>2 DEF Timed, IInv, TypeOK, TimeoutFindsSuspended
  <2>6. IInv'
    BY <1>2, <1>3, <1>6, <1>7, <1>8, <2>2, <2>3, <2>4, <2>5, HartStays
  <2> QED
    BY <1>4, <2>1, <2>2, <2>3, <2>4, <2>6
<1>11. \/ /\ stat' = st
          /\ doing' = [doing EXCEPT ![t] = User]
          /\ UNCHANGED <<yield, oncpu, armed, ready, current, nest>>
       \/ \E u \in Thread : /\ SystemThread(u)
                            /\ Schedule(t, Woken(st, u), yield, WokenReady(ready, u), 2)
                            /\ armed' = [armed EXCEPT ![u] = FALSE]
  BY DEF DeleteClose
<1> QED
  BY <1>9, <1>10, <1>11

-----------------------------------------------------------------------------
(* rt_schedule and the end of an interrupt *)

(* The hart goes from t to the first thread of the highest level; t was     *)
(* outside every critical section and is in the table if it could run on.   *)
LEMMA SwitchAwayStep ==
  ASSUME IInv, NEW t \in Thread, current = t, doing[t].at \notin Deleting,
         NEW st, NEW yl \in [Thread -> BOOLEAN], NEW rd,
         Prepared(t, st, rd, prio), rd.group # {},
         SwitchAway(t, st, yl, rd), Timed(st),
         NEW d \in Doings, Fits(t, d), d.at \notin Deleting,
         NEW n, Balanced(n, d),
         doing' = [doing EXCEPT ![t] = d],
         nest' = [nest EXCEPT ![t] = n],
         remaining' \in [Thread -> 1 .. InitTick],
         switchFlag' \in BOOLEAN, prio' = prio
  PROVE  IInv'
<1> DEFINE R   == {v \in Thread : st[v] = "READY"}
           to  == Highest(rd)
           rd1 == IF st[t] = "RUNNING" THEN Enqueued(rd, t, prio[t]) ELSE rd
           st1 == IF st[t] = "RUNNING" THEN [st EXCEPT ![t] = "READY"] ELSE st
           R1  == IF st[t] = "RUNNING" THEN R \union {t} ELSE R
<1>1. /\ st \in [Thread -> Status]
      /\ Table(rd, R, prio)
      /\ st[t] \in {"RUNNING", "SUSPEND", "CLOSE"}
      /\ st[Idle] \in {"READY", "RUNNING"}
      /\ \A v \in Thread : v # t => st[v] # "RUNNING"
      /\ prio \in [Thread -> Level]
  BY DEF Prepared, IInv, TypeOK
<1>2. to \in R /\ to # t
  <2>1. R \in SUBSET Thread /\ t \notin R
    BY <1>1
  <2> HIDE DEF R
  <2> QED
    BY <1>1, <2>1, HighestTable
<1>3. /\ stat' = [st1 EXCEPT ![to] = "RUNNING"]
      /\ yield' \in [Thread -> BOOLEAN]
      /\ ready' = Dequeued(rd1, to, prio[to])
      /\ oncpu' = [oncpu EXCEPT ![t] = FALSE, ![to] = TRUE]
      /\ current' = to
  BY DEF SwitchAway, OnCpuAfter
<1> HIDE DEF to
<1>4. /\ stat' \in [Thread -> Status]
      /\ stat'[to] = "RUNNING"
      /\ st[t] = "RUNNING" => stat'[t] = "READY"
      /\ st[t] # "RUNNING" => stat'[t] = st[t]
      /\ \A v \in Thread : v # t /\ v # to => stat'[v] = st[v]
  BY <1>1, <1>2, <1>3 DEF Status
<1>5. DeletesLocked' /\ ReadySet(stat)' = {v \in Thread : stat'[v] = "READY"}
  BY NobodyLeavesNext
<1>6. ReadySet(stat)' = R1 \ {to}
  BY <1>1, <1>2, <1>4, <1>5
<1>7. TableHolds'
  <2>1. Table(rd1, R1, prio)
    <3>1. CASE st[t] = "RUNNING"
      <4>1. t \in Thread \ R
        BY <3>1
      <4> QED
        BY <3>1, <4>1, <1>1, EnqueuedTable
    <3>2. CASE st[t] # "RUNNING"
      BY <3>2, <1>1
    <3> QED
      BY <3>1, <3>2
  <2>2. R1 \in SUBSET Thread /\ to \in Thread
    BY <1>2
  <2> HIDE DEF R1, rd1
  <2>3. Table(Dequeued(rd1, to, prio[to]), R1 \ {to}, prio)
    BY <1>1, <2>1, <2>2, DequeuedTable
  <2> QED
    BY <1>3, <1>6, <2>3 DEF TableHolds
<1> HIDE DEF R1, rd1, st1
<1>8. oncpu' \in [Thread -> BOOLEAN] /\ \A v \in Thread : oncpu'[v] <=> v = to
  BY <1>2, <1>3 DEF IInv, TypeOK, RunningIsCurrent
<1>9. TypeOK'
  <2>1. ready' \in [queue : [Level -> Seq(Thread)], group : SUBSET Level]
    BY <1>7 DEF TableHolds, Table
  <2>2. nest' \in [Thread -> [cpus : Nat, sched : Nat, crit : Nat]]
    BY DEF IInv, TypeOK, Balanced
  <2>3. doing' \in [Thread -> Doings]
    BY DEF IInv, TypeOK, Doings
  <2>4. current' \in Thread \union {NoThread}
    BY <1>2, <1>3
  <2> QED
    BY <1>1, <1>3, <1>4, <1>8, <2>1, <2>2, <2>3, <2>4 DEF TypeOK, Timed, Doings
<1>10. NestsBalanced'
  <2>1. \A v \in Thread : v # t => nest'[v] = nest[v] /\ doing'[v] = doing[v]
    BY DEF IInv, TypeOK
  <2>2. nest'[t] = n /\ doing'[t] = d
    BY DEF IInv, TypeOK
  <2> QED
    BY <2>1, <2>2 DEF NestsBalanced, IInv, Balanced
<1>11. RunningIsCurrent'
  BY <1>1, <1>2, <1>3, <1>4, <1>8 DEF RunningIsCurrent
<1>12. TimeoutFindsSuspended'
  BY <1>2, <1>4 DEF TimeoutFindsSuspended, Timed
<1>13. (CurrentRunsOrWaits /\ IdleRuns)'
  BY <1>1, <1>2, <1>3, <1>4, SchedulerConstants DEF CurrentRunsOrWaits, IdleRuns
<1>14. DoingFits'
  BY DEF IInv, TypeOK, DoingFits
<1> QED
  BY <1>5, <1>7, <1>9, <1>10, <1>11, <1>12, <1>13, <1>14 DEF IInv

(* rt_schedule switches only a thread that has not locked the scheduler.    *)
LEMMA UnlockedInside ==
  ASSUME IInv, NEW t \in Thread, doing[t].at # "return", NEW depth \in {1, 2}
  PROVE  LET inside == DisableTimes(nest[t], depth)
         IN  /\ inside.sched = 1 <=> nest[t].crit = 0
             /\ nest[t].crit = 0 => Balanced(inside, Return(depth))
             /\ Enable(Disable(nest[t])) = nest[t]
<1>1. /\ nest[t] \in [cpus : Nat, sched : Nat, crit : Nat]
      /\ nest[t].crit \in Nat
      /\ nest[t].cpus = nest[t].crit
      /\ nest[t].sched = (IF nest[t].crit = 0 THEN 0 ELSE 1) + nest[t].crit
  BY OwnNest
<1>2. Return(depth).at = "return" /\ Return(depth).enables = depth
  BY DEF Return, Doing
<1> DEFINE c == nest[t].crit
           one == Disable(nest[t])
           two == Disable(one)
<1>3. /\ one.cpus = c + 1 /\ one.crit = c
      /\ one.sched = 1 + c
      /\ one \in [cpus : Nat, sched : Nat, crit : Nat]
  BY <1>1 DEF Disable
<1>4. Enable(one) = nest[t]
  <2>1. Enable(one) = [cpus |-> nest[t].cpus, sched |-> nest[t].sched, crit |-> c]
    BY <1>1, <1>3 DEF Enable
  <2> QED
    BY <1>1, <2>1
<1> HIDE DEF one
<1>5. /\ two.cpus = c + 2 /\ two.crit = c
      /\ two.sched = 1 + c
      /\ two \in [cpus : Nat, sched : Nat, crit : Nat]
  BY <1>1, <1>3 DEF Disable
<1> HIDE DEF two
<1>6. \E k \in {one, two} : /\ DisableTimes(nest[t], depth) = k
                           /\ k.cpus = c + depth /\ k.crit = c
                           /\ k.sched = 1 + c
                           /\ k \in [cpus : Nat, sched : Nat, crit : Nat]
  BY <1>3, <1>5 DEF DisableTimes, one, two
<1>7. c = 0 => Balanced(DisableTimes(nest[t], depth), Return(depth))
  BY <1>2, <1>6 DEF Balanced
<1> QED
  BY <1>1, <1>4, <1>6, <1>7 DEF one

(* rt_schedule called by the hart's thread.  If the caller left t waiting   *)
(* or closed, the hart is never kept: the idle thread is there.             *)
LEMMA ScheduleStep ==
  ASSUME IInv, NEW t \in Thread, current = t,
         doing[t].at \in {"user", "schedule"}, NEW depth \in {1, 2},
         NEW st, NEW yl \in [Thread -> BOOLEAN], NEW rd,
         Prepared(t, st, rd, prio), Timed(st),
         Schedule(t, st, yl, rd, depth),
         remaining' \in [Thread -> 1 .. InitTick],
         UNCHANGED <<prio, switchFlag>>
  PROVE  IInv'
<1> DEFINE inside == DisableTimes(nest[t], depth)
<1>1. /\ inside.sched = 1 <=> nest[t].crit = 0
      /\ nest[t].crit = 0 => Balanced(inside, Return(depth))
  BY UnlockedInside
<1> HIDE DEF inside
<1>2. /\ User \in Doings /\ User.at = "user" /\ Fits(t, User)
      /\ Return(depth) \in Doings /\ Return(depth).at = "return"
      /\ Fits(t, Return(depth))
  BY DoingRecords DEF Fits, Pending
<1>3. ASSUME st[t] # "RUNNING"
      PROVE  rd.group # {} /\ ~KeepsHart(t, st, yl, rd)
  <2>1. st[Idle] = "READY"
    BY <1>3, SchedulerConstants DEF Prepared
  <2>2. rd.group # {}
    <3> DEFINE R == {v \in Thread : st[v] = "READY"}
    <3>1. Idle \in R /\ Table(rd, R, prio) /\ prio \in [Thread -> Level]
      BY <2>1, SchedulerConstants DEF Prepared, IInv, TypeOK
    <3>2. R \in SUBSET Thread
      OBVIOUS
    <3> HIDE DEF R
    <3> QED
      BY <3>1, <3>2, SomeGroup
  <2> QED
    BY <1>3, <2>2 DEF KeepsHart
<1>4. CASE /\ inside.sched = 1
           /\ rd.group # {}
           /\ SwitchAway(t, st, yl, rd)
           /\ doing' = [doing EXCEPT ![t] = Return(depth)]
           /\ nest' = [nest EXCEPT ![t] = inside]
  <2>1. Balanced(inside, Return(depth)) /\ switchFlag' \in BOOLEAN
    BY <1>1, <1>4 DEF IInv, TypeOK
  <2> QED
    BY <1>2, <1>4, <2>1, SwitchAwayStep DEF Deleting
<1>5. CASE /\ st[t] = "RUNNING" \/ inside.sched # 1
           /\ Nothing(st, yl, rd) \/ Stay(t, st, yl, rd)
           /\ doing' = [doing EXCEPT ![t] = User]
           /\ nest' = nest
  <2>1. /\ stat' = st /\ ready' = rd
        /\ UNCHANGED <<oncpu, current, switchFlag>>
        /\ yield' \in [Thread -> BOOLEAN]
    BY <1>5 DEF Nothing, Stay
  <2>2. nest' = [nest EXCEPT ![t] = nest[t]]
    BY <1>5 DEF IInv, TypeOK
  <2>3. Balanced(nest[t], User) /\ MayStay(st[t], nest[t], User)
    BY <1>1, <1>2, <1>5, OwnNest DEF Balanced, MayStay
  <2>4. /\ prio' \in [Thread -> Level] /\ Prepared(t, st, rd, prio')
        /\ \A v \in Thread : v # t => doing[v].at \notin Deleting
    BY PreparedAsIs DEF Deleting
  <2>5. User.at \notin Deleting
    BY <1>2 DEF Deleting
  <2> QED
    BY <1>2, <1>5, <2>1, <2>2, <2>3, <2>4, <2>5, HartStays
<1>6. \/ /\ inside.sched # 1 \/ rd.group = {}
         /\ Nothing(st, yl, rd)
         /\ doing' = [doing EXCEPT ![t] = User]
         /\ nest' = nest
      \/ /\ KeepsHart(t, st, yl, rd)
         /\ Stay(t, st, yl, rd)
         /\ doing' = [doing EXCEPT ![t] = User]
         /\ nest' = nest
      \/ /\ inside.sched = 1
         /\ rd.group # {}
         /\ SwitchAway(t, st, yl, rd)
         /\ doing' = [doing EXCEPT ![t] = Return(depth)]
         /\ nest' = [nest EXCEPT ![t] = inside]
  BY DEF Schedule, inside
<1> QED
  BY <1>3, <1>4, <1>5, <1>6

\* rd has at each level the threads of the table, and perhaps more behind.
Extends(rd) ==
  \A l \in Level : \A i \in DOMAIN ready.queue[l] :
    i \in DOMAIN rd.queue[l] /\ rd.queue[l][i] = ready.queue[l][i]

(* Putting a thread that waits at the end of its level keeps the others.    *)
LEMMA WokenExtends ==
  ASSUME IInv, NEW R \in SUBSET Thread, NEW rd, Table(rd, R, prio), Extends(rd),
         NEW u \in Thread \ R
  PROVE  Extends(WokenReady(rd, u))
<1>1. /\ prio \in [Thread -> Level]
      /\ rd.queue \in [Level -> Seq(Thread)]
      /\ ready.queue \in [Level -> Seq(Thread)]
  BY DEF IInv, TypeOK, Table
<1>2. Unlinked(rd, u) = rd
  BY <1>1, UnlinkedTable
<1>3. CASE oncpu[u]
  BY <1>2, <1>3 DEF WokenReady
<1>4. CASE ~oncpu[u]
  <2>1. WokenReady(rd, u).queue = [rd.queue EXCEPT ![prio[u]] = Append(@, u)]
    BY <1>2, <1>4 DEF WokenReady, Enqueued
  <2>2. ASSUME NEW l \in Level, NEW i \in DOMAIN rd.queue[l]
        PROVE  /\ i \in DOMAIN Append(rd.queue[l], u)
               /\ Append(rd.queue[l], u)[i] = rd.queue[l][i]
    <3>1. rd.queue[l] \in Seq(Thread)
      BY <1>1
    <3> QED
      BY <2>2, <3>1, AppendProperties
  <2>3. ASSUME NEW l \in Level
        PROVE  WokenReady(rd, u).queue[l] \in {rd.queue[l], Append(rd.queue[l], u)}
    BY <1>1, <2>1
  <2> QED
    BY <2>2, <2>3 DEF Extends
<1> QED
  BY <1>3, <1>4

(* What _thread_exit leaves for rt_schedule, before the system thread is    *)
(* told.                                                                    *)
LEMMA ExitPrepared ==
  ASSUME IInv, NEW t \in Thread, t # Idle, current = t,
         Prepared(t, stat, ready, prio)
  PROVE  /\ Prepared(t, [stat EXCEPT ![t] = "CLOSE"], Dequeued(ready, t, prio[t]), prio)
         /\ Extends(Dequeued(ready, t, prio[t]))
<1> DEFINE R  == {v \in Thread : stat[v] = "READY"}
           st == [stat EXCEPT ![t] = "CLOSE"]
           rd == Dequeued(ready, t, prio[t])
<1>1. /\ st \in [Thread -> Status]
      /\ st[t] = "CLOSE"
      /\ \A v \in Thread : v # t => st[v] = stat[v]
  BY DEF IInv, TypeOK, Status
<1>2. Table(ready, R, prio) /\ prio \in [Thread -> Level] /\ t \notin R
  BY DEF Prepared, IInv, TypeOK
<1>3. Table(rd, {v \in Thread : st[v] = "READY"}, prio)
  <2>1. Table(rd, R \ {t}, prio)
    BY <1>2, DequeuedTable
  <2>2. {v \in Thread : st[v] = "READY"} = R \ {t}
    BY <1>1
  <2> QED
    BY <2>1, <2>2
<1>4. Extends(rd)
  <2>1. ASSUME NEW l \in Level PROVE rd.queue[l] = ready.queue[l]
    <3>1. t \notin Members(ready.queue[l]) /\ R \in SUBSET Thread
      BY <1>2 DEF Table
    <3> HIDE DEF R
    <3>2. Unqueued(ready, t)[l] = ready.queue[l]
      BY <1>2, <3>1, UnqueuedTable
    <3> QED
      BY <3>2 DEF Dequeued, Unqueued
  <2> HIDE DEF rd
  <2> QED
    BY <2>1 DEF Extends
<1> HIDE DEF st, rd
<1>5. Prepared(t, st, rd, prio)
  BY <1>1, <1>3, SchedulerConstants DEF Prepared
<1> QED
  BY <1>4, <1>5 DEF st, rd

\* rt_schedule as t calls it with st and rd: nobody else becomes CLOSE, nor
\* comes back from it.
Calling(t, st, rd) ==
  /\ Prepared(t, st, rd, prio)
  /\ Timed(st)
  /\ Extends(rd)
  /\ \A v \in Thread : st[v] = "CLOSE" <=> stat[v] = "CLOSE" \/ (v = t /\ Exit(t))
  /\ \E yl \in [Thread -> BOOLEAN], depth \in {1, 2} : Schedule(t, st, yl, rd, depth)

(* The calls that reach rt_schedule with the hart's thread ready to leave.  *)
LEMMA CallingSteps ==
  ASSUME IInv, NEW t \in Thread, ScheduleNow(t) \/ Yield(t) \/ Exit(t)
  PROVE  /\ current = t
         /\ IF ScheduleNow(t) THEN doing[t].at = "schedule"
                              ELSE doing[t].at = "user"
         /\ remaining' \in [Thread -> 1 .. InitTick]
         /\ UNCHANGED <<prio, switchFlag>>
         /\ \E st, rd : Calling(t, st, rd)
<1>1. /\ current = t
      /\ IF ScheduleNow(t) THEN doing[t].at = "schedule" ELSE doing[t].at = "user"
      /\ UNCHANGED <<prio, switchFlag>>
  BY DEF ScheduleNow, Yield, Exit, Asks, Calls
<1>2. remaining' \in [Thread -> 1 .. InitTick]
  <2>1. InitTick \in 1 .. InitTick /\ remaining \in [Thread -> 1 .. InitTick]
    BY SchedulerConstants DEF IInv, TypeOK
  <2>2. remaining' = remaining \/ remaining' = [remaining EXCEPT ![t] = InitTick]
    BY DEF ScheduleNow, Yield, Exit
  <2> HIDE DEF IInv
  <2> QED
    BY <2>1, <2>2
<1>3. /\ Prepared(t, stat, ready, prio)
      /\ armed' = armed => Timed(stat)
      /\ yield \in [Thread -> BOOLEAN]
  BY <1>1, PreparedAsIs DEF Deleting, IInv, TypeOK
<1>4. Extends(ready)
  BY DEF Extends
<1>5. CASE ~Exit(t)
  <2>1. /\ armed' = armed
        /\ \E yl \in [Thread -> BOOLEAN], depth \in {1, 2} :
             Schedule(t, stat, yl, ready, depth)
    <3>1. CASE ScheduleNow(t)
      BY <1>3, <3>1 DEF ScheduleNow
    <3>2. CASE Yield(t)
      <4>1. [yield EXCEPT ![t] = TRUE] \in [Thread -> BOOLEAN]
        BY <1>3
      <4> QED
        BY <3>2, <4>1 DEF Yield
    <3> QED
      BY <1>5, <3>1, <3>2
  <2>2. Calling(t, stat, ready)
    BY <1>3, <1>4, <1>5, <2>1 DEF Calling
  <2> QED
    BY <1>1, <1>2, <2>2
<1>6. CASE Exit(t)
  <2> DEFINE st == [stat EXCEPT ![t] = "CLOSE"]
             rd == Dequeued(ready, t, prio[t])
  <2>1. t # Idle
    BY <1>6, SchedulerConstants DEF Exit
  <2>2. Prepared(t, st, rd, prio) /\ Extends(rd)
    BY <1>1, <1>3, <2>1, ExitPrepared
  <2>3. st[t] = "CLOSE" /\ \A v \in Thread : v # t => st[v] = stat[v]
    BY DEF IInv, TypeOK
  <2>4. \/ /\ Schedule(t, st, yield, rd, 2)
           /\ armed' = [armed EXCEPT ![t] = FALSE]
        \/ \E u \in Thread \ {t} :
             /\ SystemThread(u)
             /\ Schedule(t, Woken(st, u), yield, WokenReady(rd, u), 2)
             /\ armed' = [armed EXCEPT ![t] = FALSE, ![u] = FALSE]
    BY <1>6 DEF Exit
  <2> HIDE DEF st, rd
  <2>5. CASE /\ Schedule(t, st, yield, rd, 2)
             /\ armed' = [armed EXCEPT ![t] = FALSE]
    <3>1. Timed(st)
      BY <2>3, <2>5 DEF Timed, IInv, TypeOK, TimeoutFindsSuspended
    <3>2. Calling(t, st, rd)
      BY <1>3, <1>6, <2>2, <2>3, <2>5, <3>1 DEF Calling
    <3> QED
      BY <1>1, <1>2, <3>2
  <2>6. ASSUME NEW u \in Thread \ {t}, SystemThread(u),
               Schedule(t, Woken(st, u), yield, WokenReady(rd, u), 2),
               armed' = [armed EXCEPT ![t] = FALSE, ![u] = FALSE]
        PROVE  \E x, r : Calling(t, x, r)
    <3> DEFINE x == Woken(st, u)
               r == WokenReady(rd, u)
    <3>1. st[u] = "SUSPEND"
      BY <2>3, <2>6 DEF SystemThread
    <3>2. /\ Prepared(t, x, r, prio)
          /\ \A v \in Thread : v # u => x[v] = st[v]
          /\ x[u] = "READY"
      BY <1>1, <2>2, <3>1, WokenPrepared
    <3>3. Extends(r)
      <4> DEFINE R == {v \in Thread : st[v] = "READY"}
      <4>1. R \in SUBSET Thread /\ Table(rd, R, prio) /\ u \in Thread \ R
        BY <2>2, <3>1 DEF Prepared
      <4> HIDE DEF R
      <4> QED
        BY <2>2, <4>1, WokenExtends
    <3> HIDE DEF x, r
    <3>4. Timed(x)
      BY <2>3, <2>6, <3>2 DEF Timed, IInv, TypeOK, TimeoutFindsSuspended
    <3>5. Schedule(t, x, yield, r, 2)
      BY <2>6 DEF x, r
    <3>6. \A v \in Thread : x[v] = "CLOSE" <=> stat[v] = "CLOSE" \/ v = t
      BY <2>3, <3>1, <3>2
    <3>7. Calling(t, x, r)
      BY <1>3, <1>6, <3>2, <3>3, <3>4, <3>5, <3>6 DEF Calling
    <3> QED
      BY <3>7
  <2> QED
    BY <1>1, <1>2, <2>4, <2>5, <2>6
<1> QED
  BY <1>5, <1>6

(* rt_schedule at the end of a call, rt_thread_yield and _thread_exit.      *)
LEMMA CallingStep ==
  ASSUME IInv, NEW t \in Thread, ScheduleNow(t) \/ Yield(t) \/ Exit(t)
  PROVE  IInv'
<1>1. /\ current = t /\ doing[t].at \in {"user", "schedule"}
      /\ remaining' \in [Thread -> 1 .. InitTick]
      /\ UNCHANGED <<prio, switchFlag>>
  BY CallingSteps
<1>2. PICK st, rd : Calling(t, st, rd)
  BY CallingSteps
<1>3. PICK yl \in [Thread -> BOOLEAN], depth \in {1, 2} :
        Schedule(t, st, yl, rd, depth)
  BY <1>2 DEF Calling
<1>4. Prepared(t, st, rd, prio) /\ Timed(st)
  BY <1>2 DEF Calling
<1> QED
  BY <1>1, <1>3, <1>4, ScheduleStep

\* stat and ready as a handler that interrupted t leaves them: it may have
\* woken threads that waited.
Handled(t, st, rd) ==
  /\ st \in [Thread -> Status]
  /\ Table(rd, ReadySet(st), prio)
  /\ \A v \in Thread : st[v] # stat[v] =>
       stat[v] = "SUSPEND" /\ st[v] = IF v = t THEN "RUNNING" ELSE "READY"

(* The end of a trap: the hart stays with the thread it interrupted, or     *)
(* goes to another.                                                         *)
LEMMA IrqSwitchStep ==
  ASSUME IInv, NEW t \in Thread, current = t, doing[t].at # "return",
         NEW st, NEW yl \in [Thread -> BOOLEAN], NEW rd, NEW flag \in BOOLEAN,
         Handled(t, st, rd), Timed(st), \A v \in Thread : armed'[v] => armed[v],
         IrqSwitch(t, st, yl, rd, flag),
         remaining' \in [Thread -> 1 .. InitTick],
         prio' = prio
  PROVE  IInv'
<1> DEFINE inside == DisableTimes(nest[t], 1)
<1>1. /\ inside.sched = 1 <=> nest[t].crit = 0
      /\ Enable(inside) = nest[t]
      /\ inside = Disable(nest[t])
  BY UnlockedInside DEF DisableTimes
<1> HIDE DEF inside
<1>2. /\ st \in [Thread -> Status]
      /\ \A v \in Thread : v # t => st[v] # "RUNNING"
      /\ st[t] = "RUNNING" \/ (st[t] \in {"SUSPEND", "CLOSE"} /\ st[t] = stat[t])
      /\ st[Idle] \in {"READY", "RUNNING"}
  BY SchedulerConstants, SMTT(30)
  DEF Handled, IInv, TypeOK, RunningIsCurrent, CurrentRunsOrWaits, IdleRuns
<1>3. CASE /\ stat' = st
           /\ ready' = rd
           /\ yield' \in [Thread -> BOOLEAN]
           /\ switchFlag' \in BOOLEAN
           /\ UNCHANGED <<oncpu, current, nest, doing>>
  <2>1. ReadySet(stat)' = ReadySet(st)
    BY <1>3 DEF ReadySet, Leaving
  <2>2. TableHolds'
    BY <1>3, <2>1 DEF TableHolds, Handled
  <2>3. ready' \in [queue : [Level -> Seq(Thread)], group : SUBSET Level]
    BY <2>2 DEF TableHolds, Table
  <2>4. TypeOK'
    BY <1>2, <1>3, <2>3 DEF IInv, TypeOK, Timed
  <2>5. NestsBalanced' /\ DoingFits'
    BY <1>3 DEF IInv, NestsBalanced, DoingFits
  <2>6. RunningIsCurrent' /\ TimeoutFindsSuspended'
    BY <1>2, <1>3 DEF IInv, RunningIsCurrent, TimeoutFindsSuspended, Timed
  <2>7. CurrentRunsOrWaits' /\ IdleRuns'
    BY <1>2, <1>3, SchedulerConstants DEF IInv, CurrentRunsOrWaits, IdleRuns
  <2>8. DeletesLocked'
    <3>1. ASSUME NEW v \in Thread, doing[v].at \in Deleting
          PROVE  /\ v = current
                 /\ nest[v].crit > 0
                 /\ st[doing[v].who] \in {"INIT", "READY", "SUSPEND"}
                 /\ ~armed'[doing[v].who]
      <4>1. /\ v = current /\ nest[v].crit > 0
            /\ doing[v].who \in Thread \ {t}
            /\ stat[doing[v].who] \in {"INIT", "READY", "SUSPEND"}
            /\ ~armed[doing[v].who]
        BY <3>1, OneDeletes
      <4>2. \/ st[doing[v].who] = stat[doing[v].who]
            \/ st[doing[v].who] = "READY"
        BY <4>1 DEF Handled
      <4> QED
        BY <4>1, <4>2
    <3> QED
      BY <1>3, <3>1 DEF DeletesLocked
  <2> QED
    BY <2>2, <2>4, <2>5, <2>6, <2>7, <2>8 DEF IInv
<1>4. CASE /\ inside.sched = 1
           /\ rd.group # {}
           /\ SwitchAway(t, st, yl, rd)
           /\ switchFlag' = FALSE
           /\ nest' = [nest EXCEPT ![t] = Enable(inside)]
           /\ doing' = doing
  <2>1. doing[t].at \notin Deleting
    BY <1>1, <1>4, OneDeletes
  <2>2. ReadySet(st) = {v \in Thread : st[v] = "READY"}
    BY <2>1, NobodyLeaves DEF ReadySet
  <2>3. Prepared(t, st, rd, prio)
    BY <1>2, <2>2 DEF Prepared, Handled
  <2>4. /\ doing' = [doing EXCEPT ![t] = doing[t]]
        /\ doing[t] \in Doings /\ Fits(t, doing[t])
    BY <1>4 DEF IInv, TypeOK, DoingFits, Doings
  <2>5. nest' = [nest EXCEPT ![t] = nest[t]]
    BY <1>1, <1>4
  <2>6. Balanced(nest[t], doing[t])
    BY OwnNest DEF Balanced
  <2>7. switchFlag' \in BOOLEAN
    BY <1>4
  <2> QED
    BY <1>4, <2>1, <2>3, <2>4, <2>5, <2>6, <2>7, SwitchAwayStep
<1>5. \/ /\ Nothing(st, yl, rd) \/ Stay(t, st, yl, rd)
         /\ switchFlag' \in BOOLEAN
         /\ UNCHANGED nest \/ nest' = [nest EXCEPT ![t] = nest[t]]
         /\ UNCHANGED doing
      \/ /\ inside.sched = 1
         /\ rd.group # {}
         /\ SwitchAway(t, st, yl, rd)
         /\ switchFlag' = FALSE
         /\ nest' = [nest EXCEPT ![t] = Enable(inside)]
         /\ UNCHANGED doing
  BY <1>1 DEF IrqSwitch
<1>6. [nest EXCEPT ![t] = nest[t]] = nest
  BY DEF IInv, TypeOK
<1>7. Nothing(st, yl, rd) \/ Stay(t, st, yl, rd) =>
        /\ stat' = st
        /\ ready' = rd
        /\ yield' \in [Thread -> BOOLEAN]
        /\ UNCHANGED <<oncpu, current>>
  BY DEF Nothing, Stay
<1> QED
  BY <1>3, <1>4, <1>5, <1>6, <1>7

(* remaining_tick after a tick, and the yield bit of an ended slice.        *)
LEMMA TickValues ==
  ASSUME IInv, NEW t \in Thread
  PROVE  /\ [remaining EXCEPT ![t] = SliceLeft(t)] \in [Thread -> 1 .. InitTick]
         /\ [yield EXCEPT ![t] = @ \/ remaining[t] = 1] \in [Thread -> BOOLEAN]
<1>1. remaining \in [Thread -> 1 .. InitTick] /\ yield \in [Thread -> BOOLEAN]
  BY DEF IInv, TypeOK
<1>2. SliceLeft(t) \in 1 .. InitTick
  BY <1>1, SchedulerConstants DEF SliceLeft
<1> QED
  BY <1>1, <1>2

\* rt_tick_increase and the switch behind it.
LEMMA TickStep == ASSUME IInv, Tick PROVE IInv'
<1> DEFINE t  == current
           yl == [yield EXCEPT ![t] = @ \/ remaining[t] = 1]
           fl == switchFlag \/ remaining[t] = 1
<1>1. /\ t \in Thread /\ doing[t].at # "return"
      /\ remaining' = [remaining EXCEPT ![t] = SliceLeft(t)]
      /\ IrqSwitch(t, stat, yl, ready, fl)
      /\ UNCHANGED <<prio, armed>>
  BY DEF Tick, InterruptsOn, IInv, TypeOK
<1>2. yl \in [Thread -> BOOLEAN] /\ remaining' \in [Thread -> 1 .. InitTick]
  BY <1>1, TickValues
<1>3. fl \in BOOLEAN
  OBVIOUS
<1>4. /\ Handled(t, stat, ready) /\ Timed(stat)
      /\ \A v \in Thread : armed'[v] => armed[v]
  BY <1>1 DEF Handled, Timed, IInv, TypeOK, TableHolds, TimeoutFindsSuspended
<1> HIDE DEF t, yl, fl
<1> QED
  BY <1>1, <1>2, <1>3, <1>4, IrqSwitchStep DEF t

(* The wake-up of a waiting thread in a handler.                            *)
LEMMA WokenHandled ==
  ASSUME IInv, NEW u \in Thread, stat[u] = "SUSPEND", ~Leaving(u),
         current \in Thread, armed' = [armed EXCEPT ![u] = FALSE]
  PROVE  /\ Handled(current, Woken(stat, u), WokenReady(ready, u))
         /\ Timed(Woken(stat, u))
         /\ \A v \in Thread : armed'[v] => armed[v]
         /\ Extends(WokenReady(ready, u))
<1> DEFINE st == Woken(stat, u)
           rd == WokenReady(ready, u)
           R  == ReadySet(stat)
<1>1. /\ stat \in [Thread -> Status]
      /\ oncpu[u] <=> u = current
      /\ prio \in [Thread -> Level]
      /\ R \in SUBSET Thread /\ u \in Thread \ R
      /\ Table(ready, R, prio)
  BY DEF IInv, TypeOK, RunningIsCurrent, ReadySet, TableHolds
<1>3. /\ st \in [Thread -> Status]
      /\ st[u] = IF u = current THEN "RUNNING" ELSE "READY"
      /\ \A v \in Thread : v # u => st[v] = stat[v]
  BY <1>1 DEF Woken, Status
<1>4. Unlinked(ready, u) = ready
  BY <1>1, UnlinkedTable
<1>5. Table(rd, ReadySet(st), prio)
  <2>1. CASE u = current
    <3>1. rd = ready
      BY <1>1, <1>4, <2>1 DEF WokenReady
    <3>2. ReadySet(st) = R
      BY <1>3, <2>1 DEF ReadySet
    <3> QED
      BY <1>1, <3>1, <3>2
  <2>2. CASE u # current
    <3>1. rd = Enqueued(ready, u, prio[u])
      BY <1>1, <1>4, <2>2 DEF WokenReady
    <3>2. ReadySet(st) = R \union {u}
      BY <1>3, <2>2 DEF ReadySet
    <3>3. Table(Enqueued(ready, u, prio[u]), R \union {u}, prio)
      BY <1>1, EnqueuedTable
    <3> QED
      BY <3>1, <3>2, <3>3
  <2> QED
    BY <2>1, <2>2
<1>6. Extends(ready)
  BY DEF Extends
<1>7. Extends(rd)
  BY <1>1, <1>6, WokenExtends
<1> HIDE DEF st, rd
<1>8. Handled(current, st, rd)
  BY <1>3, <1>5 DEF Handled
<1>9. Timed(st) /\ \A v \in Thread : armed'[v] => armed[v]
  BY <1>3 DEF Timed, IInv, TypeOK, TimeoutFindsSuspended
<1> QED
  BY <1>7, <1>8, <1>9 DEF st, rd

(* A thread that is being deleted has no timer that could expire.           *)
LEMMA ArmedStays ==
  ASSUME IInv, NEW u \in Thread, armed[u]
  PROVE  stat[u] = "SUSPEND" /\ ~Leaving(u)
<1>1. stat[u] = "SUSPEND"
  BY DEF IInv, TimeoutFindsSuspended
<1>2. ASSUME NEW v \in Thread, doing[v].at \in {"untimer", "close"}
      PROVE  doing[v].who # u
  BY <1>2, OneDeletes DEF Deleting
<1> QED
  BY <1>1, <1>2 DEF Leaving

\* rt_thread_timeout in the tick, and the switch behind it.
LEMMA TickTimeoutStep ==
  ASSUME IInv, NEW u \in Thread, TickTimeout(u) PROVE IInv'
<1> DEFINE t  == current
           yl == [yield EXCEPT ![t] = @ \/ remaining[t] = 1]
<1>1. /\ t \in Thread /\ doing[t].at # "return"
      /\ armed[u]
      /\ armed' = [armed EXCEPT ![u] = FALSE]
      /\ remaining' = [remaining EXCEPT ![t] = SliceLeft(t)]
      /\ IrqSwitch(t, Woken(stat, u), yl, WokenReady(ready, u), TRUE)
      /\ prio' = prio
  BY DEF TickTimeout, InterruptsOn, IInv, TypeOK
<1>2. yl \in [Thread -> BOOLEAN] /\ remaining' \in [Thread -> 1 .. InitTick]
  BY <1>1, TickValues
<1>3. stat[u] = "SUSPEND" /\ ~Leaving(u)
  BY <1>1, ArmedStays
<1>4. /\ Handled(t, Woken(stat, u), WokenReady(ready, u)) /\ Timed(Woken(stat, u))
      /\ \A v \in Thread : armed'[v] => armed[v]
  BY <1>1, <1>3, WokenHandled
<1> HIDE DEF t, yl
<1> QED
  BY <1>1, <1>2, <1>4, IrqSwitchStep DEF t

\* rt_thread_resume in a handler, and the switch behind it.
LEMMA DeviceWakesStep ==
  ASSUME IInv, NEW u \in Thread, DeviceWakes(u) PROVE IInv'
<1>1. /\ current \in Thread /\ doing[current].at # "return"
      /\ stat[u] = "SUSPEND" /\ ~Leaving(u)
      /\ armed' = [armed EXCEPT ![u] = FALSE]
      /\ IrqSwitch(current, Woken(stat, u), yield, WokenReady(ready, u), TRUE)
      /\ UNCHANGED <<prio, remaining>>
  BY DEF DeviceWakes, InterruptsOn, IInv, TypeOK
<1>2. /\ Handled(current, Woken(stat, u), WokenReady(ready, u))
      /\ Timed(Woken(stat, u))
      /\ \A v \in Thread : armed'[v] => armed[v]
  BY <1>1, WokenHandled
<1>3. yield \in [Thread -> BOOLEAN] /\ remaining' \in [Thread -> 1 .. InitTick]
  BY <1>1 DEF IInv, TypeOK
<1> QED
  BY <1>1, <1>2, <1>3, IrqSwitchStep
-----------------------------------------------------------------------------
(* Every step keeps the invariant. *)
LEMMA StepIInv ==
  ASSUME DeleteLocked = TRUE, IInv, [Next]_vars
  PROVE  IInv'
<1>1. CASE SchedulerStart
  BY <1>1, SchedulerStartStep
<1>2. CASE Tick
  BY <1>2, TickStep
<1>3. ASSUME NEW u \in Thread, BootStartup(u) \/ TickTimeout(u) \/ DeviceWakes(u)
      PROVE  IInv'
  BY <1>3, BootStartupStep, TickTimeoutStep, DeviceWakesStep
<1>4. ASSUME NEW t \in Thread, Kernel(t) PROVE IInv'
  BY <1>4, CallingStep, ReturnFromScheduleStep, StartTestStep,
     ResumeCommitStep, SuspendCommitStep, DeleteRemoveStep, DeleteUntimerStep, DeleteCloseStep
  DEF Kernel
<1>5. ASSUME NEW t \in Thread, Request(t) PROVE IInv'
  <2>1. CASE EnterCritical(t) \/ Yield(t) \/ Exit(t)
    BY <2>1, EnterCriticalStep, CallingStep
  <2>2. ASSUME NEW timed \in BOOLEAN, Block(t, timed) PROVE IInv'
    BY <2>2, BlockStep
  <2>3. ASSUME NEW u \in Thread, ResumeTest(t, u) \/ SuspendTest(t, u)
        PROVE  IInv'
    BY <2>3, TestStep
  <2>4. ASSUME NEW u \in Thread, Startup(t, u) \/ DeleteTest(t, u)
        PROVE  IInv'
    BY <2>4, StartupStep, DeleteTestStep
  <2>5. ASSUME NEW u \in Thread, NEW p \in Level, ChangePriority(t, u, p)
        PROVE  IInv'
    BY <2>5, ChangePriorityStep
  <2> QED
    BY <1>5, <2>1, <2>2, <2>3, <2>4, <2>5 DEF Request
<1>6. ASSUME NEW t \in Thread, ExitCritical(t) PROVE IInv'
  BY <1>6, ExitCriticalStep
<1>7. CASE UNCHANGED vars
  <2>1. ReadySet(stat)' = ReadySet(stat)
    BY <1>7 DEF vars, ReadySet, Leaving
  <2> QED
    BY <1>7, <2>1
    DEF vars, IInv, TypeOK, NestsBalanced, RunningIsCurrent,
        TimeoutFindsSuspended, TableHolds, CurrentRunsOrWaits, IdleRuns,
        DoingFits, DeletesLocked
<1> QED
  BY <1>1, <1>2, <1>3, <1>4, <1>5, <1>6, <1>7 DEF Next

\* The invariant holds if deletion is kept from racing a time-out.
LEMMA InvariantHolds == ASSUME DeleteLocked = TRUE PROVE Spec => []IInv
<1>1. IInv /\ [Next]_vars => IInv'
  BY StepIInv
<1> QED
  BY <1>1, InitIInv, PTL DEF Spec

(* How often a thread is in a list of the ready table.                      *)
LEMMA CountMembers ==
  ASSUME NEW s, Distinct(s), NEW t
  PROVE  Count(s, t) = IF t \in Members(s) THEN 1 ELSE 0
<1> DEFINE I == {i \in DOMAIN s : s[i] = t}
<1>1. CASE t \in Members(s)
  <2>1. PICK i \in DOMAIN s : s[i] = t
    BY <1>1 DEF Members
  <2>2. I = {i}
    BY <2>1 DEF Distinct
  <2>3. Cardinality(I) = 1
    BY <2>2, FS_Singleton
  <2> QED
    BY <1>1, <2>3 DEF Count
<1>2. CASE t \notin Members(s)
  <2>1. I = {}
    BY <1>2 DEF Members
  <2>2. Cardinality(I) = 0
    BY <2>1, FS_EmptySet
  <2> QED
    BY <1>2, <2>2 DEF Count
<1> QED
  BY <1>1, <1>2

(* The variables of the scheduler keep the values of their C types.         *)
THEOREM TypeCorrect == ASSUME DeleteLocked = TRUE PROVE Spec => []TypeOK
<1>1. IInv => TypeOK
  BY DEF IInv
<1> QED
  BY <1>1, InvariantHolds, PTL

(* A thread is in the ready table once, at its current priority, exactly    *)
(* when it is READY and not being deleted, and the bitmap rt_schedule       *)
(* trusts has the bits of the lists that are not empty: for any threads and *)
(* priorities, whatever calls and interrupts did before.                    *)
THEOREM ReadyTableIsExact ==
  ASSUME DeleteLocked = TRUE PROVE Spec => []ReadyTableExact
<1>1. ASSUME IInv PROVE ReadyTableExact
  <2>1. Table(ready, ReadySet(stat), prio)
    BY <1>1 DEF IInv, TableHolds
  <2>2. GroupExact
    BY <2>1 DEF Table, GroupExact
  <2>3. ASSUME NEW t \in Thread, NEW l \in Level
        PROVE  Count(ready.queue[l], t) =
                 IF stat[t] = "READY" /\ prio[t] = l /\ ~Leaving(t) THEN 1 ELSE 0
    <3>1. Distinct(ready.queue[l])
      BY <2>1 DEF Table
    <3>2. t \in Members(ready.queue[l]) <=>
            stat[t] = "READY" /\ prio[t] = l /\ ~Leaving(t)
      BY <2>1 DEF Table, ReadySet
    <3> QED
      BY <3>1, <3>2, CountMembers
  <2> QED
    BY <2>2, <2>3 DEF ReadyTableExact
<1> QED
  BY <1>1, InvariantHolds, PTL

(* One thread at a time has the hart, and it is RUNNING except on its way   *)
(* into rt_schedule or while it has the scheduler locked, where a thread    *)
(* that sleeps or ends runs on.                                             *)
THEOREM OneThreadRuns ==
  ASSUME DeleteLocked = TRUE PROVE Spec => []RunningIsCurrent
<1>1. IInv => RunningIsCurrent
  BY DEF IInv
<1> QED
  BY <1>1, InvariantHolds, PTL

(* The counters that lock the scheduler are balanced over every path in and *)
(* out of rt_schedule and of interrupts.                                    *)
THEOREM NestsStayBalanced ==
  ASSUME DeleteLocked = TRUE PROVE Spec => []NestsBalanced
<1>1. IInv => NestsBalanced
  BY DEF IInv
<1> QED
  BY <1>1, InvariantHolds, PTL

(* The assertion of rt_thread_timeout holds: only the timer of a thread     *)
(* that waits can expire.                                                   *)
THEOREM TimeoutAssertionHolds ==
  ASSUME DeleteLocked = TRUE PROVE Spec => []TimeoutFindsSuspended
<1>1. IInv => TimeoutFindsSuspended
  BY DEF IInv
<1> QED
  BY <1>1, InvariantHolds, PTL

-----------------------------------------------------------------------------
(* The order in which threads get the hart *)

\* No ready thread is more urgent than the one that has the hart next.
ServesUrgent ==
  \A v \in Thread : stat'[v] = "READY" => prio'[current'] <= prio'[v]

\* The thread that gets the hart next was the first of its level.
TakesFirst ==
  \A i \in DOMAIN ready.queue[prio'[current']] :
    ready.queue[prio'[current']][i] = current' => i = 1

(* A switch goes to the most urgent thread, the first of its level.         *)
LEMMA SwitchInOrder ==
  ASSUME NEW t \in Thread, NEW st, NEW yl, NEW rd,
         prio \in [Thread -> Level],
         Prepared(t, st, rd, prio), rd.group # {},
         ~KeepsHart(t, st, yl, rd), SwitchAway(t, st, yl, rd),
         prio' = prio
  PROVE  ServesUrgent /\ (Extends(rd) => TakesFirst)
<1> DEFINE R  == {v \in Thread : st[v] = "READY"}
           to == Highest(rd)
           p  == HighestLevel(rd)
<1>1. /\ p \in Level /\ to \in R /\ prio[to] = p /\ to = rd.queue[p][1]
      /\ \A v \in R : p <= prio[v]
  <2>1. R \in SUBSET Thread /\ Table(rd, R, prio)
    BY DEF Prepared
  <2> HIDE DEF R
  <2> QED
    BY <2>1, HighestTable
<1>2. current' = to
  BY DEF SwitchAway
<1>3. st[t] = "RUNNING" => p <= prio[t]
  BY <1>1 DEF KeepsHart, Level
<1>4. ASSUME NEW v \in Thread, stat'[v] = "READY"
      PROVE  v \in R \/ (v = t /\ st[t] = "RUNNING")
  BY <1>1, <1>4 DEF SwitchAway, Prepared
<1>5. ServesUrgent
  BY <1>1, <1>2, <1>3, <1>4 DEF ServesUrgent
<1>6. ASSUME Extends(rd) PROVE TakesFirst
  <2>1. SUFFICES ASSUME NEW i \in DOMAIN ready.queue[p], ready.queue[p][i] = to
                 PROVE  i = 1
    BY <1>1, <1>2 DEF TakesFirst
  <2>2. i \in DOMAIN rd.queue[p] /\ rd.queue[p][i] = to
    BY <1>1, <1>6, <2>1 DEF Extends
  <2>3. Distinct(rd.queue[p]) /\ rd.queue[p] \in Seq(Thread)
    BY <1>1 DEF Prepared, Table
  <2>4. 1 \in DOMAIN rd.queue[p]
    BY <2>2, <2>3
  <2> QED
    BY <1>1, <2>2, <2>3, <2>4 DEF Distinct
<1> QED
  BY <1>5, <1>6

\* What SwitchRespectsOrder and ScheduleServesUrgent ask of one step.
OrderedSwitch ==
  current # NoThread /\ current' # current =>
    nest[current].crit = 0 /\ ServesUrgent /\ TakesFirst

ScheduleServes ==
  \A t \in Thread :
    Calls(t, "schedule") /\ doing'[t].at # "schedule" /\ nest[t].crit = 0 =>
      ServesUrgent

(* rt_schedule keeps the order, and serves the most urgent thread when the  *)
(* caller has not locked the scheduler.                                     *)
LEMMA ScheduleInOrder ==
  ASSUME IInv, NEW t \in Thread, current = t, doing[t].at # "return",
         NEW depth \in {1, 2}, NEW st, NEW yl, NEW rd,
         Prepared(t, st, rd, prio), Extends(rd),
         Schedule(t, st, yl, rd, depth), prio' = prio
  PROVE  OrderedSwitch /\ (nest[t].crit = 0 => ServesUrgent)
<1> DEFINE inside == DisableTimes(nest[t], depth)
<1>1. inside.sched = 1 <=> nest[t].crit = 0
  BY UnlockedInside
<1> HIDE DEF inside
<1>2. prio \in [Thread -> Level]
  BY DEF IInv, TypeOK
<1>3. CASE /\ inside.sched = 1
           /\ rd.group # {}
           /\ ~KeepsHart(t, st, yl, rd)
           /\ SwitchAway(t, st, yl, rd)
  BY <1>1, <1>2, <1>3, SwitchInOrder DEF OrderedSwitch
<1>4. CASE (inside.sched # 1 \/ rd.group = {}) /\ Nothing(st, yl, rd)
  <2>1. rd.group = {} => \A v \in Thread : st[v] # "READY"
    <3> DEFINE R == {v \in Thread : st[v] = "READY"}
    <3>1. R \in SUBSET Thread /\ Table(rd, R, prio)
      BY DEF Prepared
    <3> HIDE DEF R
    <3>2. \A v \in R : rd.group # {}
      BY <1>2, <3>1, SomeGroup
    <3> QED
      BY <3>2 DEF R
  <2> QED
    BY <1>1, <1>4, <2>1 DEF OrderedSwitch, Nothing, ServesUrgent
<1>5. CASE rd.group # {} /\ KeepsHart(t, st, yl, rd) /\ Stay(t, st, yl, rd)
  <2>1. \A v \in Thread : st[v] = "READY" => HighestLevel(rd) <= prio[v]
    <3> DEFINE R == {v \in Thread : st[v] = "READY"}
    <3>1. R \in SUBSET Thread /\ Table(rd, R, prio)
      BY DEF Prepared
    <3> HIDE DEF R
    <3>2. \A v \in R : HighestLevel(rd) <= prio[v]
      BY <1>2, <1>5, <3>1, HighestTable
    <3> QED
      BY <3>2 DEF R
  <2>2. HighestLevel(rd) \in Level
    <3>1. {v \in Thread : st[v] = "READY"} \in SUBSET Thread
      OBVIOUS
    <3> QED
      BY <1>2, <1>5, <3>1, HighestTable DEF Prepared
  <2>3. prio[t] <= HighestLevel(rd)
    BY <1>2, <1>5, <2>2 DEF KeepsHart, Level
  <2>4. ASSUME NEW v \in Thread, stat'[v] = "READY" PROVE prio[t] <= prio[v]
    <3>1. st[v] = "READY"
      BY <1>5, <2>4 DEF Stay
    <3>2. HighestLevel(rd) <= prio[v]
      BY <2>1, <3>1
    <3> QED
      BY <1>2, <2>2, <2>3, <3>2 DEF Level
  <2> QED
    BY <1>5, <2>4 DEF OrderedSwitch, ServesUrgent, Stay
<1> QED
  BY <1>3, <1>4, <1>5 DEF Schedule, inside

(* A handler leaves stat and ready as rt_schedule would find them when the  *)
(* scheduler is not locked: then nobody is being deleted.                   *)
LEMMA HandledPrepared ==
  ASSUME IInv, NEW t \in Thread, current = t, doing[t].at # "return",
         nest[t].crit = 0, NEW st, NEW rd, Handled(t, st, rd)
  PROVE  Prepared(t, st, rd, prio)
<1>1. doing[t].at \notin Deleting
  BY OneDeletes
<1>2. ReadySet(st) = {v \in Thread : st[v] = "READY"}
  BY <1>1, NobodyLeaves DEF ReadySet
<1>3. st[t] \in {"RUNNING", "SUSPEND", "CLOSE"}
  BY DEF Handled, IInv, CurrentRunsOrWaits
<1>4. st[Idle] \in {"READY", "RUNNING"}
  BY SchedulerConstants DEF Handled, IInv, IdleRuns
<1>5. \A v \in Thread : v # t => st[v] # "RUNNING"
  BY DEF Handled, IInv, RunningIsCurrent
<1> QED
  BY <1>2, <1>3, <1>4, <1>5 DEF Prepared, Handled

(* So does the end of an interrupt.                                         *)
LEMMA IrqInOrder ==
  ASSUME IInv, NEW t \in Thread, current = t, doing[t].at # "return",
         NEW st, NEW yl, NEW rd, NEW flag,
         Handled(t, st, rd), Extends(rd),
         IrqSwitch(t, st, yl, rd, flag), prio' = prio
  PROVE  OrderedSwitch /\ ScheduleServes
<1> DEFINE inside == DisableTimes(nest[t], 1)
<1>1. /\ inside.sched = 1 <=> nest[t].crit = 0
      /\ inside = Disable(nest[t])
  BY UnlockedInside DEF DisableTimes
<1> HIDE DEF inside
<1>2. ScheduleServes
  BY DEF ScheduleServes, Calls, IrqSwitch
<1>3. CASE /\ inside.sched = 1
           /\ rd.group # {}
           /\ ~KeepsHart(t, st, yl, rd)
           /\ SwitchAway(t, st, yl, rd)
  <2>1. Prepared(t, st, rd, prio) /\ prio \in [Thread -> Level]
    BY <1>1, <1>3, HandledPrepared DEF IInv, TypeOK
  <2> QED
    BY <1>1, <1>2, <1>3, <2>1, SwitchInOrder DEF OrderedSwitch
<1>4. CASE current' = current
  BY <1>2, <1>4 DEF OrderedSwitch
<1>5. Nothing(st, yl, rd) \/ Stay(t, st, yl, rd) => current' = current
  BY DEF Nothing, Stay
<1> QED
  BY <1>1, <1>3, <1>4, <1>5 DEF IrqSwitch

(* The steps that hand the hart over keep the order.                        *)
LEMMA SwitchingSteps ==
  ASSUME IInv, NEW t \in Thread,
         ScheduleNow(t) \/ Yield(t) \/ Exit(t)
  PROVE  OrderedSwitch /\ ScheduleServes
<1>1. /\ current = t
      /\ IF ScheduleNow(t) THEN doing[t].at = "schedule" ELSE doing[t].at = "user"
      /\ prio' = prio
  BY CallingSteps
<1>2. PICK st, rd : Calling(t, st, rd)
  BY CallingSteps
<1>3. PICK yl \in [Thread -> BOOLEAN], depth \in {1, 2} :
        Schedule(t, st, yl, rd, depth)
  BY <1>2 DEF Calling
<1>4. Prepared(t, st, rd, prio) /\ Extends(rd)
  BY <1>2 DEF Calling
<1>5. doing[t].at # "return"
  BY <1>1
<1>6. OrderedSwitch /\ (nest[t].crit = 0 => ServesUrgent)
  BY <1>1, <1>3, <1>4, <1>5, ScheduleInOrder
<1>7. ScheduleServes
  BY <1>1, <1>6 DEF ScheduleServes, Calls
<1> QED
  BY <1>6, <1>7

\* What a trap of the hart's thread does: a handler, and the end of the trap.
Trapped ==
  /\ current \in Thread
  /\ doing[current].at # "return"
  /\ prio' = prio
  /\ \E st, yl, rd, flag : /\ Handled(current, st, rd)
                           /\ Extends(rd)
                           /\ IrqSwitch(current, st, yl, rd, flag)

\* The tick, a time-out and a wake-up are such traps.
LEMMA InterruptSteps ==
  ASSUME IInv, Tick \/ \E u \in Thread : TickTimeout(u) \/ DeviceWakes(u)
  PROVE  Trapped
<1>1. current \in Thread /\ doing[current].at # "return" /\ prio' = prio
  BY DEF Tick, TickTimeout, DeviceWakes, InterruptsOn, IInv, TypeOK
<1>2. CASE Tick
  <2>1. Handled(current, stat, ready) /\ Extends(ready)
    BY DEF Extends, Handled, IInv, TypeOK, TableHolds
  <2>2. PICK yl, fl : IrqSwitch(current, stat, yl, ready, fl)
    BY <1>2 DEF Tick
  <2> QED
    BY <1>1, <2>1, <2>2 DEF Trapped
<1>3. ASSUME NEW u \in Thread, TickTimeout(u) \/ DeviceWakes(u)
      PROVE  Trapped
  <2>1. /\ stat[u] = "SUSPEND" /\ ~Leaving(u)
        /\ armed' = [armed EXCEPT ![u] = FALSE]
    BY <1>3, ArmedStays DEF TickTimeout, DeviceWakes
  <2>2. /\ Handled(current, Woken(stat, u), WokenReady(ready, u))
        /\ Extends(WokenReady(ready, u))
    BY <1>1, <2>1, WokenHandled
  <2>3. PICK yl : IrqSwitch(current, Woken(stat, u), yl, WokenReady(ready, u), TRUE)
    BY <1>3 DEF TickTimeout, DeviceWakes
  <2> QED
    BY <1>1, <2>2, <2>3 DEF Trapped
<1> QED
  BY <1>2, <1>3

(* Every other step leaves the hart with its thread, and a thread on its    *)
(* way into rt_schedule where it is.                                        *)
LEMMA StepInOrder ==
  ASSUME IInv, [Next]_vars
  PROVE  OrderedSwitch /\ ScheduleServes
<1>1. CASE /\ current = NoThread \/ current' = current
           /\ \A t \in Thread :
                Calls(t, "schedule") /\ doing'[t].at # "schedule" => FALSE
  BY <1>1 DEF OrderedSwitch, ScheduleServes
<1>2. CASE \/ SchedulerStart
           \/ \E u \in Thread : BootStartup(u)
           \/ UNCHANGED vars
  BY <1>1, <1>2, SchedulerConstants DEF SchedulerStart, BootStartup, Calls, vars
<1>3. CASE Tick \/ \E u \in Thread : TickTimeout(u) \/ DeviceWakes(u)
  BY <1>3, InterruptSteps, IrqInOrder DEF Trapped
<1>4. ASSUME NEW t \in Thread,
             current = t, doing[t].at # "schedule", current' = current
      PROVE  OrderedSwitch /\ ScheduleServes
  BY <1>1, <1>4 DEF Calls
<1>5. ASSUME NEW t \in Thread, Kernel(t) \/ ExitCritical(t)
      PROVE  OrderedSwitch /\ ScheduleServes
  <2>1. CASE ScheduleNow(t)
    BY <2>1, SwitchingSteps
  <2>2. CASE ~ScheduleNow(t)
    <3>1. CASE DeleteClose(t)
      BY <1>4, <3>1, DeleteCloseStep DEF DeleteClose, Calls
    <3>2. CASE ~DeleteClose(t)
      BY <1>4, <1>5, <2>2, <3>2
      DEF Kernel, ReturnFromSchedule, StartTest, ResumeCommit, SuspendCommit,
          DeleteRemove, DeleteUntimer, ExitCritical, Asks, Calls
    <3> QED
      BY <3>1, <3>2
  <2> QED
    BY <2>1, <2>2
<1>6. ASSUME NEW t \in Thread, Request(t)
      PROVE  OrderedSwitch /\ ScheduleServes
  <2>1. CASE Yield(t) \/ Exit(t)
    BY <2>1, SwitchingSteps
  <2>2. CASE ~(Yield(t) \/ Exit(t))
    BY <1>4, <1>6, <2>2
    DEF Request, EnterCritical, Block, ResumeTest, SuspendTest, Startup,
        DeleteTest, ChangePriority, Asks, Calls
  <2> QED
    BY <2>1, <2>2
<1> QED
  BY <1>2, <1>3, <1>5, <1>6 DEF Next

(* A switch never leaves a thread that locked the scheduler, and goes to    *)
(* the thread that waited longest at the highest ready level.               *)
THEOREM SwitchesInOrder ==
  ASSUME DeleteLocked = TRUE PROVE Spec => SwitchRespectsOrder
<1>1. ASSUME IInv, [Next]_vars
      PROVE  [current # NoThread /\ current' # current =>
                /\ nest[current].crit = 0
                /\ \A v \in Thread : stat'[v] = "READY" => prio'[current'] <= prio'[v]
                /\ \A i \in DOMAIN ready.queue[prio'[current']] :
                     ready.queue[prio'[current']][i] = current' => i = 1]_vars
  BY <1>1, StepInOrder DEF OrderedSwitch, ServesUrgent, TakesFirst
<1> QED
  BY <1>1, InvariantHolds, PTL DEF Spec, SwitchRespectsOrder

(* When an unlocked thread comes out of rt_schedule, no ready thread is     *)
(* more urgent than the one that then has the hart.                         *)
THEOREM ScheduleServesTheUrgent ==
  ASSUME DeleteLocked = TRUE PROVE Spec => ScheduleServesUrgent
<1>1. ASSUME IInv, [Next]_vars
      PROVE  [\A t \in Thread :
                Calls(t, "schedule") /\ doing'[t].at # "schedule" /\ nest[t].crit = 0 =>
                  \A v \in Thread : stat'[v] = "READY" => prio'[current'] <= prio'[v]]_vars
  BY <1>1, StepInOrder DEF ScheduleServes, ServesUrgent
<1> QED
  BY <1>1, InvariantHolds, PTL DEF Spec, ScheduleServesUrgent
-----------------------------------------------------------------------------
(* A thread that ended or was deleted *)

\* Nobody is inside a call about a thread that is closed, and nobody else
\* about one that is being deleted.
EndsHold ==
  /\ \A t, u \in Thread : stat[u] = "CLOSE" => doing[t].who # u
  /\ \A t, v \in Thread :
       doing[t].at \in Deleting /\ v # t => doing[v].who # doing[t].who

ClosedKept == \A t \in Thread : stat[t] = "CLOSE" => stat'[t] = "CLOSE"

SameClosed(st) == \A v \in Thread : stat'[v] = "CLOSE" <=> st[v] = "CLOSE"

(* The thread a switch goes to is ready, so no thread ends there or returns.*)
LEMMA SwitchClosed ==
  ASSUME NEW t \in Thread, NEW st, NEW yl, NEW rd,
         prio \in [Thread -> Level],
         Prepared(t, st, rd, prio), rd.group # {}, SwitchAway(t, st, yl, rd)
  PROVE  SameClosed(st)
<1> DEFINE R  == {v \in Thread : st[v] = "READY"}
           to == Highest(rd)
<1>1. to \in R
  <2>1. R \in SUBSET Thread /\ Table(rd, R, prio)
    BY DEF Prepared
  <2> HIDE DEF R
  <2> QED
    BY <2>1, HighestTable
<1>2. to \in Thread /\ st[to] = "READY" /\ st \in [Thread -> Status]
  BY <1>1 DEF Prepared
<1>3. stat' = [IF st[t] = "RUNNING" THEN [st EXCEPT ![t] = "READY"] ELSE st
                 EXCEPT ![to] = "RUNNING"]
  BY DEF SwitchAway
<1> HIDE DEF to
<1> QED
  BY <1>2, <1>3 DEF SameClosed

\* Steps that change what t does, and delete nobody.
LEMMA EndsKept ==
  ASSUME IInv, EndsHold, NEW t \in Thread, current = t,
         doing[t].at \notin Deleting, NEW d, d.at \notin Deleting,
         \A u \in Thread : stat'[u] = "CLOSE" => d.who # u,
         \A u \in Thread : stat'[u] = "CLOSE" /\ stat[u] # "CLOSE" => Alone(u),
         doing' = [doing EXCEPT ![t] = d]
  PROVE  EndsHold'
<1>1. doing'[t] = d /\ \A v \in Thread : v # t => doing'[v] = doing[v]
  BY DEF IInv, TypeOK
<1>2. \A v \in Thread : doing'[v].at \notin Deleting
  BY <1>1, NobodyLeaves
<1>3. ASSUME NEW v \in Thread, NEW u \in Thread, stat'[u] = "CLOSE"
      PROVE  doing'[v].who # u
  BY <1>1, <1>3 DEF EndsHold, Alone
<1> QED
  BY <1>2, <1>3 DEF EndsHold

\* rt_schedule at the end of a call, rt_thread_yield and _thread_exit.
LEMMA CallingEnds ==
  ASSUME EndsAlone = TRUE, IInv, EndsHold, NEW t \in Thread,
         ScheduleNow(t) \/ Yield(t) \/ Exit(t)
  PROVE  EndsHold' /\ ClosedKept
<1>1. /\ current = t /\ doing[t].at \in {"user", "schedule"}
      /\ prio \in [Thread -> Level]
  BY CallingSteps DEF IInv, TypeOK
<1>2. PICK st, rd : Calling(t, st, rd)
  BY CallingSteps
<1>3. PICK yl \in [Thread -> BOOLEAN], depth \in {1, 2} :
        Schedule(t, st, yl, rd, depth)
  BY <1>2 DEF Calling
<1>4. /\ Prepared(t, st, rd, prio)
      /\ \A v \in Thread : st[v] = "CLOSE" <=> stat[v] = "CLOSE" \/ (v = t /\ Exit(t))
  BY <1>2 DEF Calling
<1>5. SameClosed(st)
  <2>1. CASE rd.group # {} /\ SwitchAway(t, st, yl, rd)
    BY <1>1, <1>4, <2>1, SwitchClosed
  <2>2. CASE stat' = st
    BY <2>2 DEF SameClosed
  <2> QED
    BY <1>3, <2>1, <2>2 DEF Schedule, Nothing, Stay
<1>6. PICK d \in {User, Return(depth)} : doing' = [doing EXCEPT ![t] = d]
  BY <1>3 DEF Schedule
<1>7. d.who = NoThread /\ d.at \notin Deleting
  BY <1>6 DEF User, Return, Doing, Deleting
<1>8. Exit(t) => Alone(t)
  BY DEF Exit
<1>9. EndsHold'
  <2>1. doing[t].at \notin Deleting
    BY <1>1 DEF Deleting
  <2>2. \A u \in Thread : d.who # u
    BY <1>7, SchedulerConstants
  <2>3. \A u \in Thread : stat'[u] = "CLOSE" /\ stat[u] # "CLOSE" => Alone(u)
    BY <1>4, <1>5, <1>8 DEF SameClosed
  <2> QED
    BY <1>1, <1>6, <1>7, <2>1, <2>2, <2>3, EndsKept
<1> QED
  BY <1>4, <1>5, <1>9 DEF SameClosed, ClosedKept

\* Traps change what nobody does, and end no thread.
LEMMA TrapEnds ==
  ASSUME IInv, EndsHold, Trapped PROVE EndsHold' /\ ClosedKept
<1> DEFINE t == current
<1>1. PICK st, yl, rd, flag : Handled(t, st, rd) /\ IrqSwitch(t, st, yl, rd, flag)
  BY DEF Trapped
<1>2. \A v \in Thread : st[v] = "CLOSE" <=> stat[v] = "CLOSE"
  BY <1>1 DEF Handled
<1>3. t \in Thread /\ doing[t].at # "return" /\ prio \in [Thread -> Level]
  BY DEF Trapped, IInv, TypeOK
<1>4. SameClosed(st)
  <2>1. CASE /\ Disable(nest[t]).sched = 1
             /\ rd.group # {}
             /\ SwitchAway(t, st, yl, rd)
    <3>1. DisableTimes(nest[t], 1).sched = 1
      BY <2>1 DEF DisableTimes
    <3>2. nest[t].crit = 0
      BY <1>3, <3>1, UnlockedInside
    <3>3. Prepared(t, st, rd, prio)
      BY <1>1, <1>3, <3>2, HandledPrepared
    <3> QED
      BY <1>3, <2>1, <3>3, SwitchClosed
  <2>2. CASE stat' = st
    BY <2>2 DEF SameClosed
  <2> QED
    BY <1>1, <2>1, <2>2 DEF IrqSwitch, Nothing, Stay
<1>5. doing' = doing
  BY <1>1 DEF IrqSwitch
<1> HIDE DEF t
<1> QED
  BY <1>2, <1>4, <1>5 DEF SameClosed, EndsHold, ClosedKept

\* rt_thread_delete: only its last part closes the thread.
LEMMA DeleteEnds ==
  ASSUME IInv, EndsHold, NEW t \in Thread,
         DeleteRemove(t) \/ DeleteUntimer(t) \/ DeleteClose(t)
  PROVE  EndsHold' /\ ClosedKept
<1> DEFINE w == doing[t].who
<1>1. doing[t].at \in Deleting
  BY DEF DeleteRemove, DeleteUntimer, DeleteClose, Calls, Deleting
<1>2. /\ \A v \in Thread : v # t => doing[v].at \notin Deleting
      /\ \A v \in Thread : v # t => doing[v].who # w
      /\ w \in Thread
  BY <1>1, OneDeletes DEF EndsHold
<1>3. /\ doing \in [Thread -> Doings]
      /\ \A v \in Thread : v # t => doing'[v] = doing[v]
  <2>1. doing \in [Thread -> Doings]
    BY DEF IInv, TypeOK, Doings
  <2>2. CASE DeleteRemove(t) \/ DeleteUntimer(t)
    BY <2>1, <2>2 DEF DeleteRemove, DeleteUntimer
  <2>3. CASE DeleteClose(t)
    BY <2>1, <2>3, DeleteCloseStep
  <2> QED
    BY <2>1, <2>2, <2>3
<1>4. CASE DeleteRemove(t) \/ DeleteUntimer(t)
  <2>1. doing'[t].who = w /\ stat' = stat
    BY <1>3, <1>4 DEF DeleteRemove, DeleteUntimer, Doings
  <2>2. \A u \in Thread : stat[u] = "CLOSE" => u # w
    BY <1>1 DEF EndsHold
  <2> QED
    BY <1>2, <1>3, <2>1, <2>2 DEF EndsHold, ClosedKept
<1>5. CASE DeleteClose(t)
  <2>1. /\ doing'[t] = User
        /\ \A v \in Thread : stat'[v] = "CLOSE" <=> stat[v] = "CLOSE" \/ v = w
    BY <1>3, <1>5, DeleteCloseStep
  <2>2. User.who = NoThread /\ User.at \notin Deleting
    BY DEF User, Doing, Deleting
  <2>3. ASSUME NEW v \in Thread, NEW u \in Thread, stat'[u] = "CLOSE"
        PROVE  doing'[v].who # u
    BY <1>2, <1>3, <2>1, <2>2, <2>3, SchedulerConstants DEF EndsHold
  <2>4. \A v \in Thread : doing'[v].at \notin Deleting
    BY <1>2, <1>3, <2>1, <2>2
  <2> QED
    BY <2>1, <2>3, <2>4 DEF EndsHold, ClosedKept
<1> QED
  BY <1>4, <1>5

(* The other calls of the running thread end nobody, and are about threads  *)
(* that have not ended.                                                     *)
LEMMA CallEnds ==
  ASSUME EndsAlone = TRUE, IInv, EndsHold, NEW t \in Thread,
         \/ ReturnFromSchedule(t)
         \/ StartTest(t)
         \/ ResumeCommit(t)
         \/ SuspendCommit(t)
         \/ EnterCritical(t)
         \/ ExitCritical(t)
         \/ \E timed \in BOOLEAN : Block(t, timed)
         \/ \E u \in Thread : \/ ResumeTest(t, u)
                              \/ SuspendTest(t, u)
                              \/ Startup(t, u)
                              \/ \E p \in Level : ChangePriority(t, u, p)
  PROVE  EndsHold' /\ ClosedKept
<1>1. current = t /\ doing[t].at \notin Deleting
  BY DEF ReturnFromSchedule, StartTest, ResumeCommit, SuspendCommit,
         EnterCritical, ExitCritical, Block, ResumeTest, SuspendTest, Startup,
         ChangePriority, Asks, Calls, Deleting
<1>2. /\ stat \in [Thread -> Status] /\ doing \in [Thread -> Doings]
      /\ Fits(t, doing[t])
      /\ \A u \in Thread : stat[u] = "CLOSE" => doing[t].who # u
  BY DEF IInv, TypeOK, Doings, DoingFits, EndsHold
<1>3. SameClosed(stat)
  <2>1. CASE ResumeCommit(t) \/ SuspendCommit(t)
    <3>1. doing[t].who \in Thread /\ stat[doing[t].who] # "CLOSE"
      BY <1>2, <2>1 DEF ResumeCommit, SuspendCommit, Calls, Fits, Pending
    <3> QED
      BY <1>2, <2>1, <3>1 DEF ResumeCommit, SuspendCommit, Insert, SameClosed
  <2>2. CASE \/ \E timed \in BOOLEAN : Block(t, timed)
             \/ \E u \in Thread : Startup(t, u)
    BY <1>2, <2>2 DEF Block, Startup, Asks, SameClosed
  <2>3. CASE stat' = stat
    BY <2>3 DEF SameClosed
  <2> QED
    BY <2>1, <2>2, <2>3
    DEF ReturnFromSchedule, StartTest, EnterCritical, ExitCritical, ResumeTest,
        SuspendTest, ChangePriority
<1>4. PICK d : /\ doing' = [doing EXCEPT ![t] = d]
               /\ d.at \notin Deleting
               /\ \A u \in Thread : stat[u] = "CLOSE" => d.who # u
  <2>1. ASSUME NEW k \in {"resume", "suspend", "start", "startResume"},
               NEW u \in Thread, stat[u] # "CLOSE",
               doing' = [doing EXCEPT ![t] = About(k, u)]
        PROVE  \E d : /\ doing' = [doing EXCEPT ![t] = d]
                      /\ d.at \notin Deleting
                      /\ \A v \in Thread : stat[v] = "CLOSE" => d.who # v
    <3>1. About(k, u).at \notin Deleting /\ About(k, u).who = u
      BY DEF About, Doing, Deleting
    <3> QED
      BY <2>1, <3>1
  <2>2. ASSUME NEW d \in {User, ToSchedule}, doing' = [doing EXCEPT ![t] = d]
        PROVE  \E e : /\ doing' = [doing EXCEPT ![t] = e]
                      /\ e.at \notin Deleting
                      /\ \A v \in Thread : stat[v] = "CLOSE" => e.who # v
    <3>1. d.at \notin Deleting /\ d.who = NoThread
      BY DEF User, ToSchedule, Doing, Deleting
    <3> QED
      BY <2>2, <3>1, SchedulerConstants
  <2>3. CASE doing' = doing
    BY <1>1, <1>2, <2>3
  <2>4. CASE StartTest(t)
    <3>1. doing[t].who \in Thread /\ stat[doing[t].who] # "CLOSE"
      BY <1>2, <2>4 DEF StartTest, Calls, Fits, Pending
    <3> QED
      BY <2>1, <2>2, <2>4, <3>1 DEF StartTest
  <2>5. CASE \E u \in Thread : ResumeTest(t, u) \/ SuspendTest(t, u) \/ Startup(t, u)
    BY <2>1, <2>5 DEF ResumeTest, SuspendTest, Startup
  <2>6. CASE \/ ReturnFromSchedule(t) \/ ResumeCommit(t) \/ SuspendCommit(t)
             \/ \E timed \in BOOLEAN : Block(t, timed)
    BY <2>2, <2>6 DEF ReturnFromSchedule, ResumeCommit, AfterResume,
                      SuspendCommit, Block
  <2>7. CASE \/ EnterCritical(t) \/ ExitCritical(t)
             \/ \E u \in Thread, p \in Level : ChangePriority(t, u, p)
    BY <2>2, <2>3, <2>7 DEF EnterCritical, ExitCritical, ChangePriority
  <2> QED
    BY <2>4, <2>5, <2>6, <2>7
<1>5. EndsHold'
  BY <1>1, <1>3, <1>4, EndsKept DEF SameClosed
<1> QED
  BY <1>3, <1>5 DEF SameClosed, ClosedKept

\* The tests of rt_thread_delete: nobody else is inside a call about u.
LEMMA DeleteTestEnds ==
  ASSUME EndsAlone = TRUE, IInv, EndsHold, NEW t \in Thread, NEW u \in Thread,
         DeleteTest(t, u)
  PROVE  EndsHold' /\ ClosedKept
<1>1. /\ current = t /\ doing[t].at = "user"
      /\ Alone(u) /\ stat[u] # "CLOSE" /\ stat' = stat
  BY DEF DeleteTest, Asks, Calls
<1>2. PICK k \in {"untimer", "remove"} : doing' = [doing EXCEPT ![t] = About(k, u)]
  BY DEF DeleteTest
<1>3. About(k, u).who = u
  BY DEF About, Doing
<1>4. /\ doing'[t] = About(k, u)
      /\ \A v \in Thread : v # t => doing'[v] = doing[v]
  BY <1>2 DEF IInv, TypeOK
<1>5. \A v \in Thread : doing[v].at \notin Deleting
  BY <1>1, NobodyLeaves DEF Deleting
<1>6. ASSUME NEW v \in Thread, NEW x \in Thread, stat'[x] = "CLOSE"
      PROVE  doing'[v].who # x
  BY <1>1, <1>3, <1>4, <1>6 DEF EndsHold
<1>7. ASSUME NEW v \in Thread, NEW x \in Thread,
             doing'[v].at \in Deleting, x # v
      PROVE  doing'[x].who # doing'[v].who
  BY <1>1, <1>3, <1>4, <1>5, <1>7 DEF Alone
<1> QED
  BY <1>1, <1>6, <1>7 DEF EndsHold, ClosedKept

(* Every step keeps EndsHold, and a closed thread closed.                   *)
LEMMA StepEnds ==
  ASSUME EndsAlone = TRUE, IInv, EndsHold, [Next]_vars
  PROVE  EndsHold' /\ ClosedKept
<1>1. CASE Tick \/ \E u \in Thread : TickTimeout(u) \/ DeviceWakes(u)
  BY <1>1, InterruptSteps, TrapEnds
<1>2. CASE SchedulerStart \/ \E u \in Thread : BootStartup(u)
  <2>1. stat \in [Thread -> Status] /\ doing' = doing
    BY <1>2 DEF SchedulerStart, BootStartup, IInv, TypeOK
  <2>2. CASE SchedulerStart
    <3> DEFINE R == {v \in Thread : stat[v] = "READY"}
    <3>1. \A v \in Thread : doing[v].at \notin Deleting
      BY <2>2, NobodyBeforeStart DEF SchedulerStart
    <3>2. Table(ready, R, prio) /\ R \in SUBSET Thread /\ Idle \in R
      BY <2>2, <3>1, SchedulerConstants
      DEF IInv, TableHolds, ReadySet, Leaving, Deleting, SchedulerStart
    <3>3. prio \in [Thread -> Level]
      BY DEF IInv, TypeOK
    <3>4. Highest(ready) \in R
      <4> HIDE DEF R
      <4> QED
        BY <3>2, <3>3, SomeGroup, HighestTable
    <3>5. stat' = [stat EXCEPT ![Highest(ready)] = "RUNNING"]
      BY <2>2 DEF SchedulerStart
    <3> QED
      BY <2>1, <3>4, <3>5 DEF EndsHold, ClosedKept
  <2>3. CASE \E u \in Thread : BootStartup(u)
    BY <2>1, <2>3 DEF BootStartup, Insert, EndsHold, ClosedKept
  <2> QED
    BY <1>2, <2>2, <2>3
<1>3. ASSUME NEW t \in Thread, Kernel(t) \/ Request(t) \/ ExitCritical(t)
      PROVE  EndsHold' /\ ClosedKept
  BY <1>3, CallingEnds, DeleteEnds, CallEnds, DeleteTestEnds DEF Kernel, Request
<1>4. CASE UNCHANGED vars
  BY <1>4 DEF vars, EndsHold, ClosedKept
<1> QED
  BY <1>1, <1>2, <1>3, <1>4 DEF Next

(* A thread that ended or was deleted stays CLOSE and out of the ready      *)
(* table for good, when no other thread is inside a call about it as it     *)
(* ends, and it is deleted with the scheduler locked and no timer running.  *)
THEOREM ClosedStaysClosed ==
  ASSUME DeleteLocked = TRUE, EndsAlone = TRUE PROVE Spec => ClosedForGood
<1>1. Init => EndsHold
  BY SchedulerConstants DEF Init, EndsHold, User, Doing, Deleting
<1>2. IInv /\ EndsHold /\ [Next]_vars => EndsHold'
  BY StepEnds
<1>3. ASSUME IInv, IInv', EndsHold, [Next]_vars
      PROVE  [\A t \in Thread :
                /\ stat[t] = "CLOSE" => stat'[t] = "CLOSE"
                /\ stat'[t] = "CLOSE" =>
                     \A l \in Level : Count(ready'.queue[l], t) = 0]_vars
  <2>1. ClosedKept
    BY <1>3, StepEnds
  <2>2. Table(ready', ReadySet(stat)', prio')
    BY <1>3 DEF IInv, TableHolds
  <2>3. ASSUME NEW t \in Thread, stat'[t] = "CLOSE", NEW l \in Level
        PROVE  Count(ready'.queue[l], t) = 0
    <3>1. t \notin ReadySet(stat)'
      BY <2>3 DEF ReadySet
    <3>2. Distinct(ready'.queue[l]) /\ t \notin Members(ready'.queue[l])
      BY <2>2, <3>1 DEF Table
    <3> QED
      BY <3>2, CountMembers
  <2> QED
    BY <2>1, <2>3 DEF ClosedKept
<1> QED
  BY <1>1, <1>2, <1>3, InvariantHolds, PTL DEF Spec, ClosedForGood
=============================================================================
