------------------------------- MODULE Barrier -------------------------------
(***************************************************************************)
(* The barrier of sw/convex-hull/semaphore.h as main.c uses it: every hart *)
(* with hart_id < PROCESSORS works through DEPTH levels and calls          *)
(*     barrier(&barrier_sem, &barrier_lock, &barrier_counter, PROCESSORS)  *)
(* at the end of each; hart 0 first initialises the semaphores, and no     *)
(* other hart waits for it to have done so.                                *)
(*                                                                         *)
(* A sem_wait or sem_post is one atomic step here; module Semaphore shows  *)
(* that the LR/SC loops provide exactly that.  The counter is an ordinary  *)
(* word: its load and its store are two steps, and only barrier_lock keeps *)
(* them together.  The work of a level is one step (module AccDma has its  *)
(* accesses to the accelerator).                                           *)
(***************************************************************************)
EXTENDS Integers, FiniteSets

CONSTANTS
  CORES,       \* cores the platform instantiates (5 in mc_main.cpp)
  PROCESSORS,  \* the thread count of the barrier (6 in semaphore.h)
  DEPTH        \* levels of the merge tree (5 in input.h)

ASSUME BarrierAssumption ==
  /\ CORES \in Nat \ {0}
  /\ PROCESSORS \in Nat \ {0}
  /\ DEPTH \in Nat \ {0}

Hart == 0 .. CORES - 1

\* if (hart_id < PROCESSORS): the other harts return from main at once.
Participant == {h \in Hart : h < PROCESSORS}

VARIABLES
  pc,            \* pc[h]: where hart h is
  level,         \* level[h]: the loop variable k of main, barriers h has left
  counter,       \* barrier_counter
  barrier_lock,  \* the semaphore that guards the counter
  barrier_sem,   \* the semaphore the early harts sleep on
  seen,          \* seen[h]: the value of the counter h loaded
  j              \* j[h]: posts the releasing hart h has done

vars == <<pc, level, counter, barrier_lock, barrier_sem, seen, j>>

LockSection == {"test", "reset", "unlock_last", "count", "unlock"}
Waiting     == {"unlock", "sleep"}
Releasing   == {"unlock_last", "post"}
PC == LockSection \cup Waiting \cup Releasing
        \cup {"init_lock", "init_sem", "work", "arrive", "done"}

\* Mutant: a static initialiser opens the lock before sem_init runs.
MLockOpen == 1

\* barrier_lock is a zero word (.bss) until sem_init: taken, not free.
LockAtReset == 0

\* All globals are zero when the harts start.
Init ==
  /\ pc = [h \in Participant |-> IF h = 0 THEN "init_lock" ELSE "work"]
  /\ level = [h \in Participant |-> 0]
  /\ counter = 0
  /\ barrier_lock = LockAtReset
  /\ barrier_sem = 0
  /\ seen = [h \in Participant |-> 0]
  /\ j = [h \in Participant |-> 0]

Goto(h, l) == pc' = [pc EXCEPT ![h] = l]

-----------------------------------------------------------------------------
(* main, hart 0: sem_init is a plain store.                                *)

InitLock ==
  /\ pc[0] = "init_lock"
  /\ barrier_lock' = 1
  /\ Goto(0, "init_sem")
  /\ UNCHANGED <<level, counter, barrier_sem, seen, j>>

\* Mutant: sem_init(&barrier_sem, 1).
MInitSem ==
  /\ pc[0] = "init_sem"
  /\ barrier_sem' = 1
  /\ Goto(0, "work")
  /\ UNCHANGED <<level, counter, barrier_lock, seen, j>>

InitSem ==
  /\ pc[0] = "init_sem"
  /\ barrier_sem' = 0
  /\ Goto(0, "work")
  /\ UNCHANGED <<level, counter, barrier_lock, seen, j>>

-----------------------------------------------------------------------------
(* main: the level loop.                                                   *)

\* The pairs of one level: as long as it takes, or no time at all for a hart
\* without a pair at this level, which is back at the barrier at once.
Work(h) ==
  /\ pc[h] = "work"
  /\ Goto(h, "arrive")
  /\ UNCHANGED <<level, counter, barrier_lock, barrier_sem, seen, j>>

\* The return from barrier(): k++, and out of the loop after DEPTH levels.
Return(h) ==
  /\ level' = [level EXCEPT ![h] = @ + 1]
  /\ Goto(h, IF level[h] + 1 < DEPTH THEN "work" ELSE "done")

-----------------------------------------------------------------------------
(* barrier()                                                               *)

WaitLock(h) ==
  /\ pc[h] = "arrive"
  /\ barrier_lock > 0
  /\ barrier_lock' = barrier_lock - 1
  /\ Goto(h, "test")
  /\ UNCHANGED <<level, counter, barrier_sem, seen, j>>

\* Mutant: the counter is compared with thread_count - 2.
MIsLast == counter >= PROCESSORS - 2

IsLast == counter = PROCESSORS - 1

Test(h) ==
  /\ pc[h] = "test"
  /\ seen' = [seen EXCEPT ![h] = counter]
  /\ Goto(h, IF IsLast THEN "reset" ELSE "count")
  /\ UNCHANGED <<level, counter, barrier_lock, barrier_sem, j>>

\* Mutant: *counter = 0 is forgotten.
MReset(h) ==
  /\ pc[h] = "reset"
  /\ Goto(h, "unlock_last")
  /\ UNCHANGED <<level, counter, barrier_lock, barrier_sem, seen, j>>

Reset(h) ==
  /\ pc[h] = "reset"
  /\ counter' = 0
  /\ Goto(h, "unlock_last")
  /\ UNCHANGED <<level, barrier_lock, barrier_sem, seen, j>>

\* Mutant: sem_post(__lock) only in the other branch.
MUnlockLast(h) ==
  /\ pc[h] = "unlock_last"
  /\ j' = [j EXCEPT ![h] = 0]
  /\ Goto(h, "post")
  /\ UNCHANGED <<level, counter, barrier_lock, barrier_sem, seen>>

UnlockLast(h) ==
  /\ pc[h] = "unlock_last"
  /\ barrier_lock' = barrier_lock + 1
  /\ j' = [j EXCEPT ![h] = 0]
  /\ Goto(h, "post")
  /\ UNCHANGED <<level, counter, barrier_sem, seen>>

\* Mutant: j <= thread_count - 1, and j < thread_count - 2.
MPostsMore == PROCESSORS
MPostsFewer == PROCESSORS - 2

Posts == PROCESSORS - 1

Post(h) ==
  /\ pc[h] = "post"
  /\ j[h] < Posts
  /\ barrier_sem' = barrier_sem + 1
  /\ j' = [j EXCEPT ![h] = @ + 1]
  /\ UNCHANGED <<pc, level, counter, barrier_lock, seen>>

PostsDone(h) ==
  /\ pc[h] = "post"
  /\ j[h] >= Posts
  /\ Return(h)
  /\ UNCHANGED <<counter, barrier_lock, barrier_sem, seen, j>>

Count(h) ==
  /\ pc[h] = "count"
  /\ counter' = seen[h] + 1
  /\ Goto(h, "unlock")
  /\ UNCHANGED <<level, barrier_lock, barrier_sem, seen, j>>

Unlock(h) ==
  /\ pc[h] = "unlock"
  /\ barrier_lock' = barrier_lock + 1
  /\ Goto(h, "sleep")
  /\ UNCHANGED <<level, counter, barrier_sem, seen, j>>

WaitSem(h) ==
  /\ pc[h] = "sleep"
  /\ barrier_sem > 0
  /\ barrier_sem' = barrier_sem - 1
  /\ Return(h)
  /\ UNCHANGED <<counter, barrier_lock, seen, j>>

-----------------------------------------------------------------------------

Step(h) ==
  \/ Work(h)
  \/ WaitLock(h) \/ Test(h)
  \/ Reset(h) \/ UnlockLast(h) \/ Post(h) \/ PostsDone(h)
  \/ Count(h) \/ Unlock(h) \/ WaitSem(h)

Next == InitLock \/ InitSem \/ \E h \in Participant : Step(h)

Spec == Init /\ [][Next]_vars

\* Every core is a thread of the simulator and the quantum keeper hands the
\* simulation on, so a core that can execute its next instruction does.  Weak
\* fairness is enough: a semaphore is taken only finitely often.
Fairness ==
  /\ WF_vars(InitLock) /\ WF_vars(InitSem)
  /\ \A h \in Participant : WF_vars(Step(h))

FairSpec == Spec /\ Fairness

-----------------------------------------------------------------------------
(* Properties                                                              *)

\* The values the variables take; in particular neither semaphore word ever
\* goes below zero or beyond the number of harts.
TypeOK ==
  /\ pc \in [Participant -> PC]
  /\ level \in [Participant -> 0 .. DEPTH]
  /\ counter \in 0 .. PROCESSORS - 1
  /\ barrier_lock \in 0 .. 1
  /\ barrier_sem \in 0 .. PROCESSORS - 1
  /\ seen \in [Participant -> 0 .. PROCESSORS - 1]
  /\ j \in [Participant -> 0 .. PROCESSORS - 1]

\* barrier_lock is a lock: at most one hart is between sem_wait(__lock) and
\* sem_post(__lock), also while hart 0 is still running its sem_init calls.
MutualExclusion ==
  \A g, h \in Participant :
    pc[g] \in LockSection /\ pc[h] \in LockSection => g = h

\* The posts hart h still owes the sleepers of the barrier it tripped.
Owed(h) ==
  IF pc[h] = "unlock_last" THEN PROCESSORS - 1
  ELSE IF pc[h] = "post" THEN PROCESSORS - 1 - j[h] ELSE 0

Sleepers == {h \in Participant : pc[h] \in Waiting}

\* No wake-up is lost and none is invented: the harts that wait are those the
\* counter has counted, and for every other one a post is in the semaphore or
\* still owed by the (single) releasing hart.
Conservation ==
  /\ \A g, h \in Participant :
       pc[g] \in Releasing /\ pc[h] \in Releasing => g = h
  /\ (\A h \in Participant : pc[h] \notin Releasing) =>
       Cardinality(Sleepers) = counter + barrier_sem
  /\ \A h \in Participant : pc[h] \in Releasing =>
       Cardinality(Sleepers) = counter + barrier_sem + Owed(h)

\* A hart resets the counter only when every other hart is asleep at the
\* barrier and no old post is left over, whatever the relative speeds: the
\* barrier is tripped by the full set of harts.
TripsFull ==
  \A h \in Participant : pc[h] \in {"reset", "unlock_last"} =>
    /\ barrier_sem = 0
    /\ \A g \in Participant \ {h} : pc[g] = "sleep"

\* The first use of the barrier works under any timing: no hart is past it
\* while another has not finished its pairs of level 0.
FirstBarrier ==
  (\E h \in Participant : level[h] > 0) =>
    \A g \in Participant : level[g] = 0 => pc[g] \in Waiting \cup Releasing

\* report.md:16 "a barrier to ensure each cores are in the same iteration":
\* whoever is in a later level, it is the next one, and the hart left behind
\* has already entered the barrier and has nothing left to do but return.
\* Run barrier_reuse refutes it.
SameIteration ==
  \A g, h \in Participant : level[g] > level[h] =>
    /\ level[g] = level[h] + 1
    /\ pc[h] \in Waiting \cup Releasing

\* sem_init races with harts already running: it never takes the lock away
\* from a hart that holds it, nor discards a post.
InitHarmless ==
  [][/\ InitLock => \A h \in Participant : pc[h] \notin LockSection
     /\ InitSem => UNCHANGED barrier_sem]_vars

\* Every hart gets through all levels.
Termination == <>(\A h \in Participant : pc[h] = "done")

\* The harts in the barrier.
Inside == {h \in Participant : pc[h] \in Waiting \cup Releasing}

\* The returns from barrier() that are due: a post each, in the semaphore or
\* still owed, and the return of the hart that owes them.
Permits ==
  barrier_sem +
    IF \E h \in Participant : pc[h] \in Releasing
      THEN 1 + Owed(CHOOSE h \in Participant : pc[h] \in Releasing) ELSE 0

Gate == INSTANCE Turnstile
          WITH N <- PROCESSORS, inside <- Inside, come <- counter, permits <- Permits

\* What semaphore.h:55 promises whatever the timing: the barrier is a
\* turnstile, opened once for every PROCESSORS harts that came to it.
ImplementsTurnstile == Gate!TSpec

\* A hart takes a post while a hart that has been through fewer barriers is
\* waiting for one.
Theft ==
  \E h \in Participant :
    WaitSem(h) /\ \E g \in Sleepers : level[g] < level[h]

\* No post of the last barrier is outstanding.
Settled == barrier_sem = 0 /\ \A h \in Participant : pc[h] \notin Releasing

\* No post has been stolen: the harts are in one level or, while posts are
\* outstanding, those still to be woken are in the level before the others',
\* and the counter has counted only harts that have come back.
Orderly ==
  IF Settled
  THEN \A g, h \in Participant : level[g] = level[h]
  ELSE \E l \in 0 .. DEPTH - 1 :
         /\ \A h \in Participant :
              \/ level[h] = l /\ pc[h] \in {"sleep"} \cup Releasing
              \/ level[h] = l + 1 /\ pc[h] \notin Releasing
         /\ counter = Cardinality({h \in Sleepers : level[h] = l + 1})

Abstract == INSTANCE Lockstep WITH inside <- Inside

\* The one way in which the reused semaphore goes wrong (semaphore.h:64),
\* whatever the timing and however early a hart comes back: up to the first
\* theft every step of the barrier is one of Lockstep, and that theft takes
\* the harts out of the same iteration.
LockstepUnlessStolen ==
  [][Orderly => IF Theft THEN ~SameIteration'
                ELSE Orderly' /\ [Abstract!LSNext]_(Abstract!lsVars)]_vars
=============================================================================
