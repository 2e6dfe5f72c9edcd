------------------------------ MODULE MemPool ------------------------------
(***************************************************************************)
(* rt_mp_alloc and rt_mp_free (rt-thread/mempool.c).  The list of free      *)
(* blocks is a sequence.  A thread that waits goes to the head of the wait  *)
(* list whatever its priority.                                              *)
(***************************************************************************)
EXTENDS Waiting

CONSTANT Block \* the blocks of the pool

ASSUME MemPoolConstants == IsFiniteSet(Block)

VARIABLES
  blockList, \* mp->block_list
  freeCount, \* mp->block_free_count
  held       \* the blocks callers have

memPoolVars == <<blockList, freeCount, held>>

\* rt_mp_init, rt_mp_create
MemPoolFresh(list, count, out) ==
  /\ list = (CHOOSE s \in SetToSeqs(Block) : TRUE)
  /\ count = Cardinality(Block)
  /\ out = {}

\* A block is free, at the call or at the test after a wait.
MpAlloc(c) ==
  /\ Idle(c) \/ (c \in Thread /\ Woken(c, "pool"))
  /\ freeCount > 0
  /\ freeCount' = freeCount - 1
  /\ blockList' = Tail(blockList)
  /\ held' = held \union {Head(blockList)}
  /\ Return(c)
  /\ UNCHANGED threadVars

\* rt_list_insert_after: in front of the other waiters.
MpWait(t, lim) ==
  /\ Idle(t) \/ (Woken(t, "pool") /\ lim \in Remaining(t))
  /\ freeCount = 0
  /\ Wait(t, "pool", 0, lim)
  /\ UNCHANGED memPoolVars

MpTooLate(t) ==
  /\ Woken(t, "pool")
  /\ freeCount = 0
  /\ "zero" \in Remaining(t)
  /\ Return(t)
  /\ UNCHANGED <<memPoolVars, threadVars>>

\* Any context gives back a block.
MpFree(c, b) ==
  /\ Idle(c)
  /\ b \in held
  /\ freeCount' = freeCount + 1
  /\ blockList' = <<b>> \o blockList
  /\ held' = held \ {b}
  /\ ResumeFirst("pool")
  /\ UNCHANGED <<limit, at>>

MemPoolNext ==
  \/ \E c \in Context : MpAlloc(c) \/ \E b \in Block : MpFree(c, b)
  \/ \E t \in Thread : \/ \E lim \in Limits : MpWait(t, lim)
                       \/ MpTooLate(t)

MemPoolTypeOK ==
  /\ blockList \in Seq(Block)
  /\ freeCount \in 0 .. Cardinality(Block)
  /\ held \subseteq Block
=============================================================================
