---------------------------- MODULE BarrierProofs ----------------------------
(***************************************************************************)
(* Theorems about Barrier for any number of cores, any thread count, any   *)
(* number of levels and any timing.                                        *)
(*                                                                         *)
(* The argument: BarrierInv is inductive.  Its heart is Conservation.  A   *)
(* hart that finds the counter at PROCESSORS - 1 is itself not among the   *)
(* sleepers, so there are at most PROCESSORS - 1 of them, and the equation *)
(* leaves no room for a post in the semaphore or a post still owed: the    *)
(* barrier is tripped with everybody else asleep.                          *)
(***************************************************************************)
EXTENDS Shutdown, FiniteSetTheorems, TLAPS

\* Outside its critical section the lock is free; before sem_init ran nobody
\* can be inside.
LockInv ==
  /\ MutualExclusion
  /\ pc[0] = "init_lock" =>
       barrier_lock = 0 /\ \A h \in Participant : pc[h] \notin LockSection
  /\ (\E h \in Participant : pc[h] \in LockSection) => barrier_lock = 0

\* A hart in the critical section knows the counter.
SeenInv ==
  \A h \in Participant :
    /\ pc[h] = "reset" => counter = PROCESSORS - 1
    /\ pc[h] = "count" => counter = seen[h] /\ counter < PROCESSORS - 1

\* As long as hart 0 has not arrived nobody can trip the barrier.
InitInv ==
  pc[0] \in {"init_lock", "init_sem"} =>
    barrier_sem = 0 /\ \A h \in Participant : pc[h] \notin Releasing

\* Once the barrier was tripped, every hart of level 0 is in it.
FirstInv ==
  (\/ barrier_sem > 0
   \/ \E h \in Participant : pc[h] \in Releasing \/ level[h] > 0) =>
     \A g \in Participant : level[g] = 0 => pc[g] \in Waiting \cup Releasing

\* Only "done" harts have left all levels.
LevelInv == \A h \in Participant : pc[h] # "done" => level[h] < DEPTH

BarrierInv ==
  /\ TypeOK /\ LockInv /\ SeenInv /\ InitInv
  /\ Conservation /\ TripsFull /\ FirstInv /\ LevelInv

-----------------------------------------------------------------------------
(* Facts about the set of participants.                                    *)

\* The set of participants is finite, has at most PROCESSORS members, and
\* hart 0, which runs the initialisation, is one of them.
LEMMA Participants ==
  /\ IsFiniteSet(Participant)
  /\ Cardinality(Participant) \in Nat
  /\ Cardinality(Participant) <= PROCESSORS
  /\ 0 \in Participant
<1> USE BarrierAssumption
<1>1. /\ IsFiniteSet(0 .. PROCESSORS - 1)
      /\ Cardinality(0 .. PROCESSORS - 1) = PROCESSORS
  BY FS_Interval
<1>2. Participant \in SUBSET (0 .. PROCESSORS - 1)
  BY DEF Participant, Hart
<1>3. IsFiniteSet(Participant) /\ Cardinality(Participant) <= PROCESSORS
  BY <1>1, <1>2, FS_Subset
<1>4. 0 \in Participant
  BY DEF Participant, Hart
<1> QED  BY <1>3, <1>4, FS_CardinalityType

\* A set of participants that leaves one of them out has fewer than
\* PROCESSORS members, and has PROCESSORS - 1 only if it is all the others.
LEMMA AllButOne ==
  ASSUME NEW S \in SUBSET Participant, NEW h \in Participant, h \notin S
  PROVE  /\ IsFiniteSet(S)
         /\ Cardinality(S) \in Nat
         /\ Cardinality(S) <= PROCESSORS - 1
         /\ Cardinality(S) = PROCESSORS - 1 => S = Participant \ {h}
<1> USE BarrierAssumption
<1>1. /\ IsFiniteSet(Participant \ {h})
      /\ Cardinality(Participant \ {h}) = Cardinality(Participant) - 1
  BY Participants, FS_RemoveElement
<1>2. S \in SUBSET (Participant \ {h})
  OBVIOUS
<1>3. /\ IsFiniteSet(S)
      /\ Cardinality(S) <= Cardinality(Participant \ {h})
      /\ Cardinality(Participant \ {h}) = Cardinality(S) => S = Participant \ {h}
  BY <1>1, <1>2, FS_Subset
<1>4. Cardinality(S) \in Nat
  BY <1>3, FS_CardinalityType
<1> QED  BY <1>1, <1>3, <1>4, Participants

-----------------------------------------------------------------------------
(* The invariant holds initially and is preserved.                         *)

\* The zeroed globals and the harts' entry points satisfy the invariant.
LEMMA BarrierInvInit == Init => BarrierInv
<1> SUFFICES ASSUME Init PROVE BarrierInv
  OBVIOUS
<1> USE BarrierAssumption, Participants DEF Init, LockAtReset
<1>1. TypeOK
  BY DEF TypeOK, PC
<1>2. LockInv /\ SeenInv /\ InitInv /\ FirstInv /\ LevelInv /\ TripsFull
  BY DEF LockInv, MutualExclusion, SeenInv, InitInv, FirstInv, LevelInv, TripsFull,
         LockSection, Waiting, Releasing
<1>3. Sleepers = {}
  BY DEF Sleepers, Waiting
<1>4. Conservation
  BY <1>3, FS_EmptySet DEF Conservation, Releasing
<1> QED  BY <1>1, <1>2, <1>4 DEF BarrierInv

\* A hart that finds itself last finds everyone else asleep.
LEMMA LastFindsAllAsleep ==
  ASSUME BarrierInv, NEW h \in Participant, pc[h] = "test", IsLast
  PROVE  /\ barrier_sem = 0
         /\ \A g \in Participant \ {h} : pc[g] = "sleep"
<1> USE BarrierAssumption DEF BarrierInv
<1>1. Sleepers \in SUBSET Participant /\ h \notin Sleepers
  BY DEF Sleepers, Waiting
<1>2. /\ Cardinality(Sleepers) \in Nat
      /\ Cardinality(Sleepers) <= PROCESSORS - 1
      /\ Cardinality(Sleepers) = PROCESSORS - 1 => Sleepers = Participant \ {h}
  BY <1>1, AllButOne
<1>3. CASE \A g \in Participant : pc[g] \notin Releasing
  <2>1. Cardinality(Sleepers) = counter + barrier_sem
    BY <1>3 DEF Conservation
  <2>2. barrier_sem = 0 /\ Sleepers = Participant \ {h}
    BY <1>2, <2>1 DEF IsLast, TypeOK
  <2> QED
    BY <2>2 DEF Sleepers, Waiting, LockInv, MutualExclusion, LockSection
<1>4. ASSUME NEW r \in Participant, pc[r] \in Releasing PROVE FALSE
  <2>1. Cardinality(Sleepers) = counter + barrier_sem + Owed(r)
    BY <1>4 DEF Conservation
  <2>2. Owed(r) \in Nat
    BY DEF Owed, TypeOK
  <2>3. Sleepers = Participant \ {h}
    BY <1>2, <2>1, <2>2 DEF IsLast, TypeOK
  <2>4. r # h
    BY <1>4 DEF Releasing
  <2> QED
    BY <1>4, <2>3, <2>4 DEF Sleepers, Waiting, Releasing
<1> QED  BY <1>3, <1>4

\* A step that leaves the sleepers, the releasing harts, the counter, the
\* semaphore and the posts alone leaves Conservation alone.
LEMMA ConservationFrame ==
  ASSUME Conservation, UNCHANGED <<counter, barrier_sem, j>>,
         \A h \in Participant :
           /\ pc'[h] \in Waiting <=> pc[h] \in Waiting
           /\ pc'[h] = "post" <=> pc[h] = "post"
           /\ pc'[h] = "unlock_last" <=> pc[h] = "unlock_last"
  PROVE  Conservation'
<1>1. Sleepers' = Sleepers
  BY DEF Sleepers
<1>2. \A h \in Participant : Owed(h)' = Owed(h)
  BY DEF Owed
<1> QED  BY <1>1, <1>2 DEF Conservation, Releasing

\* The step sem_init(&barrier_lock, 1) of hart 0 preserves the invariant: nobody holds the lock yet.
LEMMA InitLockStep ==
  ASSUME BarrierInv, InitLock
  PROVE  BarrierInv'
<1> USE BarrierAssumption, Participants DEF BarrierInv, InitLock, Goto
<1>1. TypeOK'
  BY DEF TypeOK, PC, LockInv, LockSection, Waiting, Releasing
<1>2. LockInv' /\ SeenInv' /\ InitInv' /\ LevelInv'
  BY DEF TypeOK, LockInv, MutualExclusion, SeenInv, InitInv, LevelInv,
         LockSection, Releasing
<1>3. TripsFull' /\ FirstInv'
  BY DEF TypeOK, TripsFull, FirstInv, LockInv, MutualExclusion, InitInv,
         LockSection, Waiting, Releasing
<1>4. Conservation'
  BY ConservationFrame DEF TypeOK, Waiting
<1> QED  BY <1>1, <1>2, <1>3, <1>4

\* The step sem_init(&barrier_sem, 0) of hart 0 preserves it: it overwrites a zero.
LEMMA InitSemStep ==
  ASSUME BarrierInv, InitSem
  PROVE  BarrierInv'
<1> USE BarrierAssumption, Participants DEF BarrierInv, InitSem, Goto
<1>1. TypeOK'
  BY DEF TypeOK, PC, LockInv, LockSection, Waiting, Releasing
<1>2. LockInv' /\ SeenInv' /\ InitInv' /\ LevelInv'
  BY DEF TypeOK, LockInv, MutualExclusion, SeenInv, InitInv, LevelInv,
         LockSection, Releasing
<1>3. TripsFull' /\ FirstInv'
  BY DEF TypeOK, TripsFull, FirstInv, LockInv, MutualExclusion, InitInv,
         LockSection, Waiting, Releasing
<1>4. Conservation'
  BY ConservationFrame DEF TypeOK, Waiting, InitInv
<1> QED  BY <1>1, <1>2, <1>3, <1>4

\* The work of a level preserves it.
LEMMA WorkStep ==
  ASSUME BarrierInv, NEW h \in Participant, Work(h)
  PROVE  BarrierInv'
<1> USE BarrierAssumption, Participants DEF BarrierInv, Work, Goto
<1>1. TypeOK'
  BY DEF TypeOK, PC, LockInv, LockSection, Waiting, Releasing
<1>2. LockInv' /\ SeenInv' /\ InitInv' /\ LevelInv'
  BY DEF TypeOK, LockInv, MutualExclusion, SeenInv, InitInv, LevelInv,
         LockSection, Releasing
<1>3. TripsFull' /\ FirstInv'
  BY DEF TypeOK, TripsFull, FirstInv, LockInv, MutualExclusion, InitInv,
         LockSection, Waiting, Releasing
<1>4. Conservation'
  BY ConservationFrame DEF TypeOK, Waiting
<1> QED  BY <1>1, <1>2, <1>3, <1>4

\* sem_wait(__lock) preserves it: it succeeds only when nobody is inside.
LEMMA WaitLockStep ==
  ASSUME BarrierInv, NEW h \in Participant, WaitLock(h)
  PROVE  BarrierInv'
<1> USE BarrierAssumption, Participants DEF BarrierInv, WaitLock, Goto
<1>1. TypeOK'
  BY DEF TypeOK, PC, LockInv, LockSection, Waiting, Releasing
<1>2. LockInv' /\ SeenInv' /\ InitInv' /\ LevelInv'
  BY DEF TypeOK, LockInv, MutualExclusion, SeenInv, InitInv, LevelInv,
         LockSection, Releasing
<1>3. TripsFull' /\ FirstInv'
  BY DEF TypeOK, TripsFull, FirstInv, LockInv, MutualExclusion, InitInv,
         LockSection, Waiting, Releasing
<1>4. Conservation'
  BY ConservationFrame DEF TypeOK, Waiting
<1> QED  BY <1>1, <1>2, <1>3, <1>4

\* sem_post(__lock) of a hart that goes to sleep preserves it.
LEMMA UnlockStep ==
  ASSUME BarrierInv, NEW h \in Participant, Unlock(h)
  PROVE  BarrierInv'
<1> USE BarrierAssumption, Participants DEF BarrierInv, Unlock, Goto
<1>1. TypeOK'
  BY DEF TypeOK, PC, LockInv, LockSection, Waiting, Releasing
<1>2. LockInv' /\ SeenInv' /\ InitInv' /\ LevelInv'
  BY DEF TypeOK, LockInv, MutualExclusion, SeenInv, InitInv, LevelInv,
         LockSection, Releasing
<1>3. TripsFull' /\ FirstInv'
  BY DEF TypeOK, TripsFull, FirstInv, LockInv, MutualExclusion, InitInv,
         LockSection, Waiting, Releasing
<1>4. Conservation'
  BY ConservationFrame DEF TypeOK, Waiting
<1> QED  BY <1>1, <1>2, <1>3, <1>4

\* sem_post(__lock) of the releasing hart, and j = 0, preserve it.
LEMMA UnlockLastStep ==
  ASSUME BarrierInv, NEW h \in Participant, UnlockLast(h)
  PROVE  BarrierInv'
<1> USE BarrierAssumption, Participants DEF BarrierInv, UnlockLast, Goto
<1>1. TypeOK'
  BY DEF TypeOK, PC, LockInv, LockSection, Waiting, Releasing
<1>2. LockInv' /\ SeenInv' /\ InitInv' /\ LevelInv'
  BY DEF TypeOK, LockInv, MutualExclusion, SeenInv, InitInv, LevelInv,
         LockSection, Releasing
<1>3. TripsFull' /\ FirstInv'
  BY DEF TypeOK, TripsFull, FirstInv, LockInv, MutualExclusion, InitInv,
         LockSection, Waiting, Releasing
<1>4. Conservation'
  <2>1. Sleepers' = Sleepers
    BY DEF Sleepers, TypeOK, Waiting
  <2>2. \A g \in Participant : Owed(g)' = Owed(g)
    BY DEF Owed, TypeOK
  <2> QED  BY <2>1, <2>2 DEF Conservation, Releasing, TypeOK
<1> QED  BY <1>1, <1>2, <1>3, <1>4

\* Loading *counter and comparing it with thread_count - 1 preserves it.
LEMMA TestStep ==
  ASSUME BarrierInv, NEW h \in Participant, Test(h)
  PROVE  BarrierInv'
<1> USE BarrierAssumption, Participants DEF BarrierInv, Test, Goto
<1>1. TypeOK'
  BY DEF TypeOK, PC, LockSection
<1>2. LockInv' /\ SeenInv' /\ InitInv' /\ LevelInv'
  BY DEF IsLast, TypeOK, LockInv, MutualExclusion, SeenInv, InitInv, LevelInv,
         LockSection, Releasing
<1>3. TripsFull'
  <2>1. CASE IsLast
    <3>1. barrier_sem = 0 /\ \A g \in Participant \ {h} : pc[g] = "sleep"
      BY <2>1, LastFindsAllAsleep
    <3> QED  BY <2>1, <3>1 DEF TypeOK, TripsFull
  <2>2. CASE ~IsLast
    BY <2>2 DEF TypeOK, TripsFull
  <2> QED  BY <2>1, <2>2
<1>4. FirstInv'
  BY DEF TypeOK, FirstInv, Waiting, Releasing
<1>5. Conservation'
  BY ConservationFrame DEF TypeOK, Waiting
<1> QED  BY <1>1, <1>2, <1>3, <1>4, <1>5

\* *counter = 0 preserves it: from here on the hart owes every sleeper a post.
LEMMA ResetStep ==
  ASSUME BarrierInv, NEW h \in Participant, Reset(h)
  PROVE  BarrierInv'
<1> USE BarrierAssumption, Participants DEF BarrierInv, Reset, Goto
<1>1. TypeOK'
  BY DEF TypeOK, PC, LockSection
<1>2. LockInv' /\ SeenInv' /\ InitInv' /\ LevelInv'
  BY DEF TypeOK, LockInv, MutualExclusion, SeenInv, InitInv, LevelInv, TripsFull,
         LockSection, Releasing
<1>3. TripsFull' /\ FirstInv'
  BY DEF TypeOK, TripsFull, FirstInv, Waiting, Releasing
<1>4. Conservation'
  <2>1. \A g \in Participant : pc[g] \notin Releasing
    BY DEF TripsFull, Releasing
  <2>2. Sleepers' = Sleepers /\ Cardinality(Sleepers) = PROCESSORS - 1
    BY <2>1 DEF Sleepers, Conservation, TripsFull, SeenInv, TypeOK, Waiting
  <2>3. Owed(h)' = PROCESSORS - 1
    BY DEF Owed, TypeOK
  <2>4. \A g \in Participant : pc'[g] \in Releasing <=> g = h
    BY <2>1 DEF TypeOK, Releasing
  <2> QED  BY <2>2, <2>3, <2>4 DEF Conservation, TripsFull, TypeOK
<1> QED  BY <1>1, <1>2, <1>3, <1>4

\* sem_post(__sem) preserves it: a post moves from the debt to the semaphore.
LEMMA PostStep ==
  ASSUME BarrierInv, NEW h \in Participant, Post(h)
  PROVE  BarrierInv'
<1> USE BarrierAssumption, Participants DEF BarrierInv, Post, Goto
<1>1. Sleepers' = Sleepers /\ h \notin Sleepers
  BY DEF Sleepers, Waiting
<1>2. Cardinality(Sleepers) \in Nat /\ Cardinality(Sleepers) <= PROCESSORS - 1
  BY <1>1, AllButOne DEF Sleepers
<1>3. Cardinality(Sleepers) = counter + barrier_sem + (PROCESSORS - 1 - j[h])
  BY DEF Conservation, Releasing, Owed
<1>4. TypeOK'
  BY <1>2, <1>3 DEF TypeOK, Posts
<1>5. LockInv' /\ SeenInv' /\ InitInv' /\ LevelInv'
  BY DEF LockInv, MutualExclusion, SeenInv, InitInv, LevelInv, Releasing
<1>6. TripsFull' /\ FirstInv'
  BY DEF TripsFull, FirstInv, Releasing
<1>7. Conservation'
  <2>1. Owed(h)' = PROCESSORS - 1 - (j[h] + 1)
    BY DEF Owed, TypeOK
  <2>2. \A g \in Participant : pc[g] \in Releasing => g = h
    BY DEF Conservation, Releasing
  <2>3. Cardinality(Sleepers) = (counter + barrier_sem + Owed(h))'
    BY <1>3, <2>1 DEF TypeOK
  <2>4. pc[h] \in Releasing
    BY DEF Releasing
  <2> QED  BY <1>1, <2>2, <2>3, <2>4 DEF Conservation
<1> QED  BY <1>4, <1>5, <1>6, <1>7

\* The return of the releasing hart preserves it: it has no debt left.
LEMMA PostsDoneStep ==
  ASSUME BarrierInv, NEW h \in Participant, PostsDone(h)
  PROVE  BarrierInv'
<1> USE BarrierAssumption, Participants DEF BarrierInv, PostsDone, Return, Goto
<1>1. TypeOK'
  BY DEF TypeOK, PC, LevelInv
<1>2. LockInv' /\ SeenInv' /\ InitInv' /\ LevelInv'
  BY DEF TypeOK, LockInv, MutualExclusion, SeenInv, InitInv, LevelInv,
         LockSection, Releasing
<1>3. TripsFull' /\ FirstInv'
  BY DEF TypeOK, TripsFull, FirstInv, LevelInv, Waiting, Releasing
<1>4. Conservation'
  <2>1. Sleepers' = Sleepers
    BY DEF Sleepers, TypeOK, Waiting
  <2>2. Owed(h) = 0
    BY DEF Owed, Posts, TypeOK
  <2>3. \A g \in Participant : pc[g] \in Releasing => g = h
    BY DEF Conservation, Releasing
  <2>4. \A g \in Participant : pc'[g] \notin Releasing
    BY <2>3 DEF TypeOK, Releasing
  <2>5. Cardinality(Sleepers) = counter + barrier_sem
    BY <2>2 DEF Conservation, TypeOK, Releasing
  <2> QED  BY <2>1, <2>4, <2>5 DEF Conservation
<1> QED  BY <1>1, <1>2, <1>3, <1>4

\* (*counter)++ preserves it: the hart joins the sleepers and is counted.
LEMMA CountStep ==
  ASSUME BarrierInv, NEW h \in Participant, Count(h)
  PROVE  BarrierInv'
<1> USE BarrierAssumption, Participants DEF BarrierInv, Count, Goto
<1>1. TypeOK'
  BY DEF TypeOK, PC, LockSection, SeenInv
<1>2. LockInv' /\ SeenInv' /\ InitInv' /\ LevelInv'
  BY DEF TypeOK, LockInv, MutualExclusion, SeenInv, InitInv, LevelInv,
         LockSection, Releasing
<1>3. TripsFull' /\ FirstInv'
  BY DEF TypeOK, TripsFull, FirstInv, LockInv, MutualExclusion,
         LockSection, Waiting, Releasing
<1>4. Conservation'
  <2>1. Sleepers' = Sleepers \cup {h} /\ h \notin Sleepers
    BY DEF Sleepers, TypeOK, Waiting
  <2>2. IsFiniteSet(Sleepers) /\ Cardinality(Sleepers) \in Nat
    BY <2>1, AllButOne DEF Sleepers
  <2>3. Cardinality(Sleepers') = Cardinality(Sleepers) + 1
    BY <2>1, <2>2, FS_AddElement
  <2>4. counter' = counter + 1
    BY DEF SeenInv
  <2>5. \A g \in Participant :
          Owed(g)' = Owed(g) /\ Owed(g) \in Int
                  /\ (pc'[g] \in Releasing <=> pc[g] \in Releasing)
    BY DEF Owed, TypeOK, Releasing
  <2>6. counter \in Int /\ barrier_sem \in Int
    BY DEF TypeOK
  <2> QED  BY <2>2, <2>3, <2>4, <2>5, <2>6 DEF Conservation
<1> QED  BY <1>1, <1>2, <1>3, <1>4

\* sem_wait(__sem) preserves it: a sleeper takes a post and leaves.
LEMMA WaitSemStep ==
  ASSUME BarrierInv, NEW h \in Participant, WaitSem(h)
  PROVE  BarrierInv'
<1> USE BarrierAssumption, Participants DEF BarrierInv, WaitSem, Return, Goto
<1>1. TypeOK'
  BY DEF TypeOK, PC, LevelInv
<1>2. LockInv' /\ SeenInv' /\ InitInv' /\ LevelInv'
  BY DEF TypeOK, LockInv, MutualExclusion, SeenInv, InitInv, LevelInv,
         LockSection, Releasing
<1>3. TripsFull' /\ FirstInv'
  BY DEF TypeOK, TripsFull, FirstInv, LevelInv, Waiting, Releasing
<1>4. Conservation'
  <2>1. Sleepers' = Sleepers \ {h} /\ h \in Sleepers
    BY DEF Sleepers, TypeOK, Waiting
  <2>2. IsFiniteSet(Sleepers) /\ Cardinality(Sleepers) \in Nat
    BY Participants, FS_Subset, FS_CardinalityType DEF Sleepers
  <2>3. Cardinality(Sleepers') = Cardinality(Sleepers) - 1
    BY <2>1, <2>2, FS_RemoveElement
  <2>4. \A g \in Participant :
          Owed(g)' = Owed(g) /\ Owed(g) \in Int
                  /\ (pc'[g] \in Releasing <=> pc[g] \in Releasing)
    BY DEF Owed, TypeOK, Releasing
  <2>5. counter \in Int /\ barrier_sem \in Int
    BY DEF TypeOK
  <2> QED  BY <2>2, <2>3, <2>4, <2>5 DEF Conservation
<1> QED  BY <1>1, <1>2, <1>3, <1>4

\* Every step of the program, and a stuttering step, preserves BarrierInv.
LEMMA BarrierInvNext == BarrierInv /\ [Next]_vars => BarrierInv'
<1> SUFFICES ASSUME BarrierInv, [Next]_vars PROVE BarrierInv'
  OBVIOUS
<1>1. CASE InitLock
  BY <1>1, InitLockStep
<1>2. CASE InitSem
  BY <1>2, InitSemStep
<1>3. ASSUME NEW h \in Participant, Step(h) PROVE BarrierInv'
  BY <1>3, WorkStep, WaitLockStep, TestStep, ResetStep, UnlockLastStep, PostStep,
     PostsDoneStep, CountStep, UnlockStep, WaitSemStep DEF Step
<1>4. CASE UNCHANGED vars
  BY <1>4 DEF vars, BarrierInv, TypeOK, LockInv, MutualExclusion, SeenInv, InitInv,
     Conservation, Sleepers, Owed, TripsFull, FirstInv, LevelInv
<1> QED  BY <1>1, <1>2, <1>3, <1>4 DEF Next

\* BarrierInv holds in every reachable state.
THEOREM BarrierInvariant == Spec => []BarrierInv
BY BarrierInvInit, BarrierInvNext, PTL DEF Spec

\* The semaphores and the counter stay in their ranges, whatever the number
\* of harts: no uint32_t word of the barrier wraps.
THEOREM TypeCorrect == Spec => []TypeOK
BY BarrierInvariant, PTL DEF BarrierInv

\* barrier_lock protects the counter, the race with sem_init included.
THEOREM LockIsExclusive == Spec => []MutualExclusion
BY BarrierInvariant, PTL DEF BarrierInv, LockInv

\* No wake-up of the barrier is lost or invented.
THEOREM WakeupsConserved == Spec => []Conservation
BY BarrierInvariant, PTL DEF BarrierInv

\* The barrier is tripped only by the full set of harts.
THEOREM TripsAreFull == Spec => []TripsFull
BY BarrierInvariant, PTL DEF BarrierInv

\* The first use of the barrier separates level 0 from the later levels under
\* any timing.
THEOREM FirstBarrierCorrect == Spec => []FirstBarrier
<1>1. BarrierInv => FirstBarrier
  BY DEF BarrierInv, FirstInv, FirstBarrier
<1> QED  BY <1>1, BarrierInvariant, PTL

\* The unsynchronised sem_init calls of hart 0 do no harm.
THEOREM InitCorrect == Spec => InitHarmless
<1>1. ASSUME BarrierInv, InitLock
      PROVE  \A h \in Participant : pc[h] \notin LockSection
  BY <1>1 DEF BarrierInv, LockInv, InitLock
<1>2. ASSUME BarrierInv, InitSem PROVE UNCHANGED barrier_sem
  BY <1>2 DEF BarrierInv, InitInv, InitSem
<1>3. BarrierInv =>
        [/\ InitLock => \A h \in Participant : pc[h] \notin LockSection
         /\ InitSem => UNCHANGED barrier_sem]_vars
  BY <1>1, <1>2
<1> QED  BY <1>3, BarrierInvariant, PTL DEF InitHarmless

-----------------------------------------------------------------------------
(* The barrier as a turnstile: every step, with any timing.                *)

\* Permits is an implementation-level account (posts sent, posts owed and the
\* return of who owes them); by Conservation it is the number of harts in the
\* barrier that the counter has not counted.
PermitsInv ==
  /\ IsFiniteSet(Inside) /\ Cardinality(Inside) \in Nat
  /\ Permits \in Nat /\ Permits = Cardinality(Inside) - counter

LEMMA PermitsCount == BarrierInv => PermitsInv
<1> SUFFICES ASSUME BarrierInv PROVE PermitsInv
  OBVIOUS
<1> USE BarrierAssumption DEF BarrierInv
<1>1. /\ IsFiniteSet(Inside) /\ Cardinality(Inside) \in Nat
      /\ IsFiniteSet(Sleepers) /\ Cardinality(Sleepers) \in Nat
  BY Participants, FS_Subset, FS_CardinalityType DEF Inside, Sleepers
<1>2. counter \in Nat /\ barrier_sem \in Nat
  BY DEF TypeOK
<1>3. CASE \A h \in Participant : pc[h] \notin Releasing
  <2>1. Inside = Sleepers /\ Permits = barrier_sem
    BY <1>2, <1>3 DEF Inside, Sleepers, Permits
  <2>2. Cardinality(Sleepers) = counter + barrier_sem
    BY <1>3 DEF Conservation
  <2> QED  BY <1>1, <1>2, <2>1, <2>2 DEF PermitsInv
<1>4. ASSUME NEW r \in Participant, pc[r] \in Releasing
      PROVE  Permits \in Nat /\ Permits = Cardinality(Inside) - counter
  <2>1. \A h \in Participant : pc[h] \in Releasing => h = r
    BY <1>4 DEF Conservation
  <2>2. Permits = barrier_sem + (1 + Owed(r))
    <3>1. r = CHOOSE h \in Participant : pc[h] \in Releasing
      BY <1>4, <2>1
    <3> QED  BY <1>4, <3>1 DEF Permits
  <2>3. Inside = Sleepers \cup {r} /\ r \notin Sleepers
    BY <1>4, <2>1 DEF Inside, Sleepers, Waiting, Releasing
  <2>4. Cardinality(Inside) = Cardinality(Sleepers) + 1
    BY <1>1, <2>3, FS_AddElement
  <2>5. Cardinality(Sleepers) = counter + barrier_sem + Owed(r)
    BY <1>4 DEF Conservation
  <2>6. Owed(r) \in Nat
    BY DEF Owed, TypeOK
  <2> QED  BY <1>1, <1>2, <2>2, <2>4, <2>5, <2>6
<1> QED  BY <1>1, <1>3, <1>4 DEF PermitsInv

\* What a step of one hart changes of what a caller sees: coming, leaving, or
\* nothing.
LEMMA StepKinds ==
  ASSUME BarrierInv, NEW h \in Participant, Step(h)
  PROVE  \/ UNCHANGED <<level, Inside, counter>>
         \/ /\ Count(h)
            /\ level[h] < DEPTH /\ UNCHANGED level
            /\ h \notin Inside /\ Inside' = Inside \cup {h}
            /\ counter' = counter + 1 /\ counter < PROCESSORS - 1
         \/ /\ Reset(h)
            /\ level[h] < DEPTH /\ UNCHANGED level
            /\ h \notin Inside /\ Inside' = Inside \cup {h}
            /\ counter' = 0 /\ counter = PROCESSORS - 1
         \/ /\ PostsDone(h) \/ WaitSem(h)
            /\ level' = [level EXCEPT ![h] = @ + 1]
            /\ h \in Inside /\ Inside' = Inside \ {h}
            /\ UNCHANGED counter
<1> USE BarrierAssumption DEF BarrierInv, Goto
<1>1. CASE Work(h) \/ WaitLock(h) \/ Test(h) \/ UnlockLast(h) \/ Post(h) \/ Unlock(h)
  <2>1. \A g \in Participant :
          (pc'[g] \in Waiting \cup Releasing) = (pc[g] \in Waiting \cup Releasing)
    BY <1>1 DEF Work, WaitLock, Test, UnlockLast, Post, Unlock, TypeOK, Waiting, Releasing
  <2>2. UNCHANGED <<level, counter>>
    BY <1>1 DEF Work, WaitLock, Test, UnlockLast, Post, Unlock
  <2> QED  BY <2>1, <2>2 DEF Inside
<1>2. CASE Reset(h) \/ Count(h)
  <2>1. /\ pc[h] \notin Waiting \cup Releasing /\ pc'[h] \in Waiting \cup Releasing
        /\ \A g \in Participant \ {h} : pc'[g] = pc[g]
        /\ level[h] < DEPTH /\ UNCHANGED level
    BY <1>2 DEF Reset, Count, TypeOK, LevelInv, Waiting, Releasing
  <2>2. Inside' = Inside \cup {h} /\ h \notin Inside
    BY <2>1 DEF Inside
  <2>3. CASE Reset(h)
    BY <2>1, <2>2, <2>3 DEF Reset, SeenInv
  <2>4. CASE Count(h)
    BY <2>1, <2>2, <2>4 DEF Count, SeenInv
  <2> QED  BY <1>2, <2>3, <2>4
<1>3. CASE PostsDone(h) \/ WaitSem(h)
  <2>1. /\ pc[h] \in Waiting \cup Releasing /\ pc'[h] \notin Waiting \cup Releasing
        /\ \A g \in Participant \ {h} : pc'[g] = pc[g]
        /\ level' = [level EXCEPT ![h] = @ + 1] /\ UNCHANGED counter
    BY <1>3 DEF PostsDone, WaitSem, Return, TypeOK, Waiting, Releasing
  <2>2. Inside' = Inside \ {h} /\ h \in Inside
    BY <2>1 DEF Inside
  <2> QED  BY <1>3, <2>1, <2>2
<1> QED  BY <1>1, <1>2, <1>3 DEF Step

\* Every step of the code is a step of the turnstile, or leaves it alone.
LEMMA TurnstileStep ==
  ASSUME BarrierInv, BarrierInv', [Next]_vars
  PROVE  [Gate!TNext]_(Gate!tVars)
<1> USE BarrierAssumption
<1>1. /\ IsFiniteSet(Inside) /\ Cardinality(Inside) \in Nat
      /\ Permits \in Nat /\ Permits = Cardinality(Inside) - counter
  BY PermitsCount DEF PermitsInv
<1>2. /\ IsFiniteSet(Inside') /\ Cardinality(Inside') \in Nat
      /\ Permits' \in Nat /\ Permits' = Cardinality(Inside') - counter'
  <2>1. PermitsInv'
    BY PermitsCount, PTL
  <2> QED  BY <2>1 DEF PermitsInv
<1>3. counter \in Nat
  BY DEF BarrierInv, TypeOK
<1>4. SUFFICES \/ \E h \in Participant : Gate!Enter(h) \/ Gate!Leave(h)
               \/ UNCHANGED <<level, Inside, counter>>
  BY <1>1, <1>2 DEF Gate!TNext, Gate!tVars
<1>5. CASE InitLock \/ InitSem \/ UNCHANGED vars
  <2>1. 0 \in Participant
    BY Participants
  <2> QED
    BY <1>5, <2>1 DEF InitLock, InitSem, Goto, vars, Inside, BarrierInv, TypeOK, Waiting, Releasing
<1>6. ASSUME NEW h \in Participant, Step(h)
      PROVE  Gate!Enter(h) \/ Gate!Leave(h) \/ UNCHANGED <<level, Inside, counter>>
  <2>1. ASSUME h \notin Inside, Inside' = Inside \cup {h}
        PROVE  Cardinality(Inside') = Cardinality(Inside) + 1
    BY <1>1, <2>1, FS_AddElement
  <2>2. ASSUME h \in Inside, Inside' = Inside \ {h}
        PROVE  Cardinality(Inside') = Cardinality(Inside) - 1
    BY <1>1, <2>2, FS_RemoveElement
  <2>3. CASE /\ level[h] < DEPTH /\ UNCHANGED level
             /\ h \notin Inside /\ Inside' = Inside \cup {h}
             /\ counter' = counter + 1 /\ counter < PROCESSORS - 1
    <3>1. Permits' = Permits
      BY <1>1, <1>2, <1>3, <2>1, <2>3
    <3> QED  BY <2>3, <3>1 DEF Gate!Enter
  <2>4. CASE /\ level[h] < DEPTH /\ UNCHANGED level
             /\ h \notin Inside /\ Inside' = Inside \cup {h}
             /\ counter' = 0 /\ counter = PROCESSORS - 1
    <3>1. Permits' = Permits + PROCESSORS
      BY <1>1, <1>2, <1>3, <2>1, <2>4
    <3> QED  BY <2>4, <3>1 DEF Gate!Enter
  <2>5. CASE /\ level' = [level EXCEPT ![h] = @ + 1]
             /\ h \in Inside /\ Inside' = Inside \ {h}
             /\ UNCHANGED counter
    <3>1. Permits' = Permits - 1 /\ Permits > 0
      BY <1>1, <1>2, <1>3, <2>2, <2>5
    <3> QED  BY <2>5, <3>1 DEF Gate!Leave
  <2> QED  BY <1>6, <2>3, <2>4, <2>5, StepKinds
<1> QED  BY <1>5, <1>6 DEF Next

\* The semaphore barrier implements the turnstile (its safety part), for every
\* number of harts and levels, whatever the timing: as many leave as have come,
\* PROCESSORS at a time.
THEOREM TurnstileImplemented ==
  Spec => Gate!TInit /\ [][Gate!TNext]_(Gate!tVars)
<1>1. Init => Gate!TInit
  <2> SUFFICES ASSUME Init PROVE Gate!TInit
    OBVIOUS
  <2>1. \A h \in Participant : pc[h] \notin Waiting \cup Releasing
    BY DEF Init, Waiting, Releasing
  <2>2. Inside = {} /\ Permits = 0
    BY <2>1 DEF Init, Inside, Permits
  <2> QED  BY <2>2 DEF Init, Gate!TInit
<1>2. BarrierInv /\ BarrierInv' /\ [Next]_vars => [Gate!TNext]_(Gate!tVars)
  BY TurnstileStep
<1> QED  BY <1>1, <1>2, BarrierInvariant, PTL DEF Spec

-----------------------------------------------------------------------------
(* The barrier as Lockstep: up to the first stolen post.                   *)

\* In the initial state everybody is in level 0.
LEMMA OrderlyInit == Init => Orderly
BY Participants DEF Init, Orderly, Settled, Releasing

\* In an orderly state the harts are in the same iteration.
LEMMA OrderlySame ==
  ASSUME BarrierInv, Orderly
  PROVE  SameIteration
<1> USE BarrierAssumption DEF SameIteration
<1>1. \A h \in Participant : level[h] \in Int
  BY SMT DEF BarrierInv, TypeOK
<1>2. CASE Settled
  BY <1>1, <1>2, SMT DEF Orderly
<1>3. CASE ~Settled
  <2>1. PICK l \in 0 .. DEPTH - 1 : \A h \in Participant :
          \/ level[h] = l /\ pc[h] \in {"sleep"} \cup Releasing
          \/ level[h] = l + 1 /\ pc[h] \notin Releasing
    BY <1>3 DEF Orderly
  <2> QED  BY <1>1, <2>1, SMT DEF Waiting
<1> QED  BY <1>2, <1>3

\* As long as posts are outstanding somebody has not been woken yet: the posts
\* are as many as the harts of the older level that sleep.
LateInv ==
  \A l \in 0 .. DEPTH - 1 :
    /\ \A h \in Participant :
         \/ level[h] = l /\ pc[h] \in {"sleep"} \cup Releasing
         \/ level[h] = l + 1 /\ pc[h] \notin Releasing
    /\ counter = Cardinality({h \in Sleepers : level[h] = l + 1})
    => /\ barrier_sem > 0 => \E h \in Sleepers : level[h] = l
       /\ Settled => \A h \in Participant : level[h] = l + 1

LEMMA PostsAreForTheLate == BarrierInv => LateInv
<1> SUFFICES
      ASSUME BarrierInv, NEW l \in 0 .. DEPTH - 1,
             \A h \in Participant :
               \/ level[h] = l /\ pc[h] \in {"sleep"} \cup Releasing
               \/ level[h] = l + 1 /\ pc[h] \notin Releasing,
             counter = Cardinality({h \in Sleepers : level[h] = l + 1})
      PROVE  /\ barrier_sem > 0 => \E h \in Sleepers : level[h] = l
             /\ Settled => \A h \in Participant : level[h] = l + 1
  BY DEF LateInv
<1> USE BarrierAssumption DEF BarrierInv
<1> DEFINE Back == {h \in Sleepers : level[h] = l + 1}
<1>1. IsFiniteSet(Sleepers) /\ Back \in SUBSET Sleepers
  BY Participants, FS_Subset DEF Sleepers
<1>2. /\ IsFiniteSet(Back) /\ Cardinality(Back) \in Nat /\ Cardinality(Sleepers) \in Nat
      /\ Cardinality(Back) = Cardinality(Sleepers) => Back = Sleepers
  BY <1>1, FS_Subset, FS_CardinalityType
<1>3. barrier_sem \in Nat /\ \A h \in Participant : Owed(h) \in Nat
  BY DEF TypeOK, Owed
<1>4. barrier_sem > 0 => Cardinality(Sleepers) # Cardinality(Back)
  <2> SUFFICES ASSUME barrier_sem > 0 PROVE Cardinality(Sleepers) # Cardinality(Back)
    OBVIOUS
  <2>1. CASE \A h \in Participant : pc[h] \notin Releasing
    BY <1>2, <1>3, <2>1 DEF Conservation
  <2>2. ASSUME NEW r \in Participant, pc[r] \in Releasing
        PROVE  Cardinality(Sleepers) # Cardinality(Back)
    BY <1>2, <1>3, <2>2 DEF Conservation
  <2> QED  BY <2>1, <2>2
<1>5. barrier_sem > 0 => \E h \in Sleepers : level[h] = l
  <2> SUFFICES ASSUME barrier_sem > 0 PROVE \E h \in Sleepers : level[h] = l
    OBVIOUS
  <2>1. PICK h \in Sleepers : level[h] # l + 1
    BY <1>4
  <2> QED  BY <2>1 DEF Sleepers
<1>6. Settled => \A h \in Participant : level[h] = l + 1
  <2> SUFFICES ASSUME Settled, NEW h \in Participant PROVE level[h] = l + 1
    OBVIOUS
  <2>1. Cardinality(Sleepers) = Cardinality(Back)
    BY <1>2 DEF Settled, Conservation
  <2>2. pc[h] \notin Releasing /\ (pc[h] = "sleep" => h \in Back)
    BY <1>2, <2>1 DEF Settled, Sleepers, Waiting
  <2> QED  BY <2>2
<1> QED  BY <1>5, <1>6

\* A hart that leaves an orderly barrier without a theft: either the others of
\* its level still have posts coming, or it was the last one there.
LEMMA LeaveStep ==
  ASSUME BarrierInv, BarrierInv', Orderly, NEW h \in Participant,
         PostsDone(h) \/ WaitSem(h), ~Theft
  PROVE  /\ Orderly'
         /\ \A g \in Participant : level[g] > level[h] \/ (level[g] = level[h] /\ g \in Inside)
<1> USE BarrierAssumption
<1>1. ~Settled
  BY DEF Settled, PostsDone, WaitSem, BarrierInv, TypeOK, Releasing
<1>2. PICK l \in 0 .. DEPTH - 1 :
        /\ \A g \in Participant :
             \/ level[g] = l /\ pc[g] \in {"sleep"} \cup Releasing
             \/ level[g] = l + 1 /\ pc[g] \notin Releasing
        /\ counter = Cardinality({g \in Sleepers : level[g] = l + 1})
  BY <1>1 DEF Orderly
<1>3. level[h] = l
  <2>1. CASE PostsDone(h)
    BY <1>2, <2>1 DEF PostsDone, Releasing
  <2>2. CASE WaitSem(h)
    <3>1. barrier_sem > 0
      BY <2>2 DEF WaitSem
    <3>2. PICK g \in Sleepers : level[g] = l
      BY <1>2, <3>1, PostsAreForTheLate DEF LateInv
    <3>3. ~(level[g] < level[h])
      BY <2>2, <3>2 DEF Theft
    <3> QED  BY <1>2, <3>2, <3>3
  <2> QED  BY <2>1, <2>2
<1>4. /\ pc' = [pc EXCEPT ![h] = IF l + 1 < DEPTH THEN "work" ELSE "done"]
      /\ level' = [level EXCEPT ![h] = l + 1]
      /\ UNCHANGED counter
  BY <1>3 DEF PostsDone, WaitSem, Return, Goto
<1>5. \A g \in Participant :
        \/ level'[g] = l /\ pc'[g] \in {"sleep"} \cup Releasing
        \/ level'[g] = l + 1 /\ pc'[g] \notin Releasing
  BY <1>2, <1>4 DEF BarrierInv, TypeOK, Releasing
<1>6. {g \in Sleepers : level[g] = l + 1}' = {g \in Sleepers : level[g] = l + 1}
  <2>1. \A g \in Participant :
          (pc'[g] \in Waiting /\ level'[g] = l + 1) = (pc[g] \in Waiting /\ level[g] = l + 1)
    BY <1>2, <1>3, <1>4 DEF BarrierInv, TypeOK, Waiting
  <2> QED  BY <2>1 DEF Sleepers
<1>7. counter' = Cardinality({g \in Sleepers : level[g] = l + 1}')
  BY <1>2, <1>4, <1>6
<1>8. Settled' => \A g \in Participant : level'[g] = l + 1
  <2>1. LateInv'
    BY PostsAreForTheLate, PTL
  <2> QED  BY <1>5, <1>7, <2>1 DEF LateInv
<1>9. Orderly'
  BY <1>5, <1>7, <1>8 DEF Orderly
<1> QED  BY <1>2, <1>3, <1>9 DEF Inside, Waiting, Releasing

\* Every other step keeps an orderly barrier orderly.
LEMMA OrderlyStep ==
  ASSUME BarrierInv, BarrierInv', Orderly, [Next]_vars, ~Theft
  PROVE  Orderly'
<1> USE BarrierAssumption, Participants DEF Goto
<1>1. CASE InitLock \/ InitSem
  <2>1. Settled /\ Settled' /\ UNCHANGED level
    BY <1>1 DEF InitLock, InitSem, BarrierInv, InitInv, Settled, TypeOK, Releasing
  <2> QED  BY <2>1 DEF Orderly
<1>2. CASE UNCHANGED vars
  BY <1>2 DEF vars, Orderly, Settled, Sleepers
<1>3. ASSUME NEW h \in Participant, Step(h) PROVE Orderly'
  <2>1. CASE Settled /\ ~Reset(h) /\ ~PostsDone(h) /\ ~WaitSem(h)
    <3>1. Settled' /\ UNCHANGED level
      BY <1>3, <2>1 DEF Step, Work, WaitLock, Test, UnlockLast, Post, Count, Unlock,
                        BarrierInv, TypeOK, Settled, Releasing
    <3> QED  BY <2>1, <3>1 DEF Orderly
  <2>2. CASE Reset(h)
    <3>1. Settled
      BY <2>2 DEF Reset, BarrierInv, TripsFull, Settled, Releasing
    <3>2. /\ level[h] \in 0 .. DEPTH - 1 /\ counter' = 0 /\ UNCHANGED level
          /\ \A g \in Participant : level[g] = level[h]
      BY <2>2, <3>1 DEF Reset, BarrierInv, LevelInv, TypeOK, Orderly
    <3>3. /\ ~Settled'
          /\ \A g \in Participant :
               level'[g] = level[h] /\ pc'[g] \in {"sleep"} \cup Releasing
      BY <2>2, <3>2 DEF Reset, BarrierInv, TripsFull, Settled, Releasing, TypeOK
    <3>4. {g \in Sleepers : level[g] = level[h] + 1}' = {}
      BY <3>2 DEF Sleepers
    <3>5. counter' = Cardinality({g \in Sleepers : level[g] = level[h] + 1}')
      BY <3>2, <3>4, FS_EmptySet
    <3>6. PICK l \in 0 .. DEPTH - 1 : l = level[h]
      BY <3>2
    <3>7. counter' = Cardinality({g \in Sleepers' : level'[g] = l + 1})
      BY <3>2, <3>5, <3>6
    <3> QED  BY <3>3, <3>6, <3>7 DEF Orderly
  <2>3. CASE PostsDone(h) \/ WaitSem(h)
    BY <2>3, LeaveStep
  <2>4. CASE ~Settled /\ ~Reset(h) /\ ~PostsDone(h) /\ ~WaitSem(h)
    <3>1. PICK l \in 0 .. DEPTH - 1 :
            /\ \A g \in Participant :
                 \/ level[g] = l /\ pc[g] \in {"sleep"} \cup Releasing
                 \/ level[g] = l + 1 /\ pc[g] \notin Releasing
            /\ counter = Cardinality({g \in Sleepers : level[g] = l + 1})
      BY <2>4 DEF Orderly
    <3>2. /\ UNCHANGED level
          /\ pc'[h] = pc[h] \/ (pc[h] = "unlock_last" /\ pc'[h] = "post")
               \/ (pc[h] \notin {"sleep"} \cup Releasing /\ pc'[h] \notin Releasing)
          /\ \A g \in Participant \ {h} : pc'[g] = pc[g]
      BY <1>3, <2>4 DEF Step, Work, WaitLock, Test, UnlockLast, Post, Count, Unlock,
                        BarrierInv, TypeOK, Releasing
    <3>3. \A g \in Participant :
            \/ level'[g] = l /\ pc'[g] \in {"sleep"} \cup Releasing
            \/ level'[g] = l + 1 /\ pc'[g] \notin Releasing
      BY <3>1, <3>2 DEF Releasing
    <3>4. ~Settled'
      BY <1>3, <2>4 DEF Step, Work, WaitLock, Test, UnlockLast, Post, Count, Unlock,
                        BarrierInv, TypeOK, Settled, Releasing
    <3>5. counter' = Cardinality({g \in Sleepers' : level'[g] = l + 1})
      <4>1. CASE Count(h)
        <5>1. /\ h \notin Sleepers /\ Sleepers' = Sleepers \cup {h} /\ level[h] = l + 1
              /\ counter' = counter + 1
          BY <3>1, <4>1 DEF Count, Sleepers, BarrierInv, SeenInv, TypeOK, Waiting, Releasing
        <5>2. {g \in Sleepers' : level'[g] = l + 1}
                = {g \in Sleepers : level[g] = l + 1} \cup {h}
          BY <3>2, <5>1
        <5>3. IsFiniteSet({g \in Sleepers : level[g] = l + 1})
          BY FS_Subset DEF Sleepers
        <5>4. Cardinality({g \in Sleepers : level[g] = l + 1} \cup {h})
                = Cardinality({g \in Sleepers : level[g] = l + 1}) + 1
          BY <5>1, <5>3, FS_AddElement
        <5> QED  BY <3>1, <5>1, <5>2, <5>4
      <4>2. CASE ~Count(h)
        <5>1. Sleepers' = Sleepers /\ UNCHANGED counter
          BY <1>3, <2>4, <4>2 DEF Step, Work, WaitLock, Test, UnlockLast, Post, Unlock,
                                  BarrierInv, TypeOK, Sleepers, Waiting
        <5> QED  BY <3>1, <3>2, <5>1
      <4> QED  BY <4>1, <4>2
    <3> QED  BY <3>3, <3>4, <3>5 DEF Orderly
  <2> QED  BY <2>1, <2>2, <2>3, <2>4
<1> QED  BY <1>1, <1>2, <1>3 DEF Next

\* And it is a step of Lockstep, or leaves it alone.
LEMMA LockstepStep ==
  ASSUME BarrierInv, BarrierInv', Orderly, [Next]_vars, ~Theft
  PROVE  [Abstract!LSNext]_(Abstract!lsVars)
<1>1. SUFFICES \/ \E h \in Participant : Abstract!Enter(h) \/ Abstract!Leave(h)
               \/ UNCHANGED <<level, Inside>>
  BY DEF Abstract!LSNext, Abstract!lsVars
<1>2. CASE InitLock \/ InitSem \/ UNCHANGED vars
  <2>1. 0 \in Participant
    BY Participants
  <2> QED
    BY <1>2, <2>1 DEF InitLock, InitSem, Goto, vars, Inside, BarrierInv, TypeOK, Waiting, Releasing
<1>3. ASSUME NEW h \in Participant, Step(h)
      PROVE  Abstract!Enter(h) \/ Abstract!Leave(h) \/ UNCHANGED <<level, Inside>>
  <2>1. CASE /\ level[h] < DEPTH /\ UNCHANGED level
             /\ h \notin Inside /\ Inside' = Inside \cup {h}
    BY <2>1 DEF Abstract!Enter
  <2>2. CASE /\ PostsDone(h) \/ WaitSem(h)
             /\ level' = [level EXCEPT ![h] = @ + 1]
             /\ h \in Inside /\ Inside' = Inside \ {h}
    BY <2>2, LeaveStep DEF Abstract!Leave
  <2> QED  BY <1>3, <2>1, <2>2, StepKinds
<1> QED  BY <1>2, <1>3 DEF Next

\* A theft leaves the robbed hart two levels behind.
LEMMA TheftBreaks ==
  ASSUME BarrierInv, Orderly, Theft
  PROVE  ~SameIteration'
<1> USE BarrierAssumption
<1>1. PICK h \in Participant : WaitSem(h) /\ \E g \in Sleepers : level[g] < level[h]
  BY DEF Theft
<1>2. PICK g \in Sleepers : level[g] < level[h]
  BY <1>1
<1>3. g \in Participant /\ level[g] \in Int /\ level[h] \in Int
  BY <1>2 DEF BarrierInv, TypeOK, Sleepers
<1>4. level'[h] = level[h] + 1 /\ level'[g] = level[g]
  BY <1>1, <1>2, <1>3 DEF WaitSem, Return, BarrierInv, TypeOK
<1> QED  BY <1>2, <1>3, <1>4, SMT DEF SameIteration

\* report.md:16, exactly: whatever the timing, the barrier keeps the harts in
\* the same iteration and goes through the steps of Lockstep up to the first
\* stolen post, and not beyond.
THEOREM LockstepUntilTheft == Spec => Orderly /\ LockstepUnlessStolen
<1>1. ASSUME BarrierInv, BarrierInv', [Next]_vars, Orderly
      PROVE  IF Theft THEN ~SameIteration'
             ELSE Orderly' /\ [Abstract!LSNext]_(Abstract!lsVars)
  BY <1>1, OrderlyStep, LockstepStep, TheftBreaks
<1>2. BarrierInv /\ BarrierInv' /\ [Next]_vars =>
        [Orderly => IF Theft THEN ~SameIteration'
                    ELSE Orderly' /\ [Abstract!LSNext]_(Abstract!lsVars)]_vars
  BY <1>1
<1> QED  BY <1>2, OrderlyInit, BarrierInvariant, PTL DEF Spec, LockstepUnlessStolen

\* A run in which no post is stolen is a run of Lockstep, in the same
\* iteration throughout.
COROLLARY LockstepWithoutTheft ==
  Spec /\ [][~Theft]_vars =>
    [](Orderly /\ SameIteration) /\ Abstract!LSInit /\ [][Abstract!LSNext]_(Abstract!lsVars)
<1>1. Init => Abstract!LSInit
  BY DEF Init, Abstract!LSInit, Inside, Waiting, Releasing
<1>2. BarrierInv /\ BarrierInv' /\ Orderly /\ [Next]_vars /\ [~Theft]_vars
        => Orderly' /\ [Abstract!LSNext]_(Abstract!lsVars)
  <2> SUFFICES ASSUME BarrierInv, BarrierInv', Orderly, [Next]_vars, [~Theft]_vars
               PROVE  Orderly' /\ [Abstract!LSNext]_(Abstract!lsVars)
    OBVIOUS
  <2>1. ~Theft
    <3>1. CASE UNCHANGED vars
      BY <3>1 DEF vars, Theft, WaitSem, BarrierInv, TypeOK
    <3> QED  BY <3>1
  <2> QED  BY <2>1, OrderlyStep, LockstepStep
<1>3. BarrierInv /\ Orderly => SameIteration
  BY OrderlySame
<1> QED  BY <1>1, <1>2, <1>3, OrderlyInit, BarrierInvariant, PTL DEF Spec

-----------------------------------------------------------------------------
(* The end of the program (module Shutdown): the hart that ends the        *)
(* simulation is the last one.  The counter has been drawn from once by    *)
(* every hart that is past its loop and by no other (ExitInv), so whoever  *)
(* draws CORES - 1 is the only one left.                                   *)

Drawn == {h \in Hart : a0[h] # -1}

ExitInv ==
  /\ pc = [h \in Participant |-> pc[h]]
  /\ a0 \in [Hart -> Int] /\ exit_counter \in Nat
  /\ exit_counter = Cardinality(Drawn)
  /\ \A h \in Drawn : a0[h] < exit_counter /\ LoopDone(h)
  /\ 0 \in Drawn => printed
  /\ exited => \E h \in Hart : MayExit(h)

-----------------------------------------------------------------------------

LEMMA HartFinite == IsFiniteSet(Hart) /\ Cardinality(Hart) = CORES /\ 0 \in Hart
<1>1. 0 \in Int /\ CORES - 1 \in Int /\ CORES \in Nat \ {0}
  BY BarrierAssumption
<1>2. IsFiniteSet(Hart) /\ Cardinality(Hart) = IF 0 > CORES - 1 THEN 0 ELSE CORES - 1 - 0 + 1
  BY <1>1, FS_Interval DEF Hart
<1> QED  BY <1>1, <1>2, SMT DEF Hart

\* A hart that is through with its loop stays so.
LEMMA DoneStays ==
  ASSUME pc = [h \in Participant |-> pc[h]],
         InitLock \/ InitSem \/ \E h \in Participant : Step(h)
  PROVE  /\ pc' = [h \in Participant |-> pc'[h]]
         /\ \A h \in Participant : pc[h] = "done" => pc'[h] = "done"
<1>1. \E h \in Participant : pc[h] # "done" /\ (UNCHANGED pc \/ \E l : Goto(h, l))
  <2>1. 0 \in Participant
    BY BarrierAssumption, SMT DEF Participant, Hart
  <2>2. ASSUME InitLock \/ InitSem PROVE pc[0] # "done" /\ \E l : Goto(0, l)
    BY <2>2 DEF InitLock, InitSem
  <2>3. ASSUME NEW h \in Participant, Step(h)
        PROVE  pc[h] # "done" /\ (UNCHANGED pc \/ \E l : Goto(h, l))
    BY <2>3 DEF Step, Work, WaitLock, Test, Reset, UnlockLast, Post, PostsDone, Count, Unlock,
                WaitSem, Return
  <2> QED  BY <2>1, <2>2, <2>3
<1> QED  BY <1>1 DEF Goto

\* Steps that draw no number.
LEMMA NoDraw ==
  ASSUME ExitInv, UNCHANGED <<exit_counter, a0>>,
         pc' = [h \in Participant |-> pc'[h]],
         \A h \in Participant : pc[h] = "done" => pc'[h] = "done",
         printed => printed', exited' => \E h \in Hart : MayExit(h)
  PROVE  ExitInv'
<1>1. Drawn' = Drawn
  BY DEF Drawn
<1>2. \A h \in Hart : LoopDone(h) => LoopDone(h)'
  BY DEF LoopDone, Participant
<1>3. \A h \in Hart : MayExit(h) => MayExit(h)'
  BY DEF MayExit
<1>4. Cardinality(Drawn)' = Cardinality(Drawn)
  BY <1>1
<1> QED  BY <1>1, <1>2, <1>3, <1>4 DEF ExitInv, Drawn

LEMMA InitExitInv == ExitInit => ExitInv
<1> SUFFICES ASSUME ExitInit PROVE ExitInv
  OBVIOUS
<1>1. Drawn = {}
  BY DEF ExitInit, Drawn
<1>2. Cardinality(Drawn) = 0
  BY <1>1, FS_EmptySet
<1> QED  BY <1>1, <1>2 DEF ExitInit, Init, ExitInv

LEMMA NextExitInv == ExitInv /\ [ExitNext]_allVars => ExitInv'
<1> SUFFICES ASSUME ExitInv, [ExitNext]_allVars PROVE ExitInv'
  OBVIOUS
<1>1. CASE Initialise \/ \E h \in Participant : Level(h)
  <2>1. UNCHANGED exitVars /\ (InitLock \/ InitSem \/ \E h \in Participant : Step(h))
    BY <1>1 DEF Initialise, Level
  <2>2. /\ pc' = [h \in Participant |-> pc'[h]]
        /\ \A h \in Participant : pc[h] = "done" => pc'[h] = "done"
    BY <2>1, DoneStays DEF ExitInv
  <2> QED  BY <2>1, <2>2, NoDraw DEF exitVars, ExitInv
<1>2. CASE PrintHull
  BY <1>2, NoDraw DEF PrintHull, vars, ExitInv
<1>3. ASSUME NEW h \in Hart, Draw(h) PROVE ExitInv'
  <2>1. /\ LoopDone(h) /\ a0[h] = -1 /\ (h = 0 => printed) /\ ~exited
        /\ a0' = [a0 EXCEPT ![h] = exit_counter] /\ exit_counter' = exit_counter + 1
        /\ UNCHANGED <<pc, printed, exited>>
    BY <1>3 DEF Draw, vars
  <2>2. a0 \in [Hart -> Int] /\ exit_counter \in Nat /\ exit_counter # -1
    BY SMT DEF ExitInv
  <2>3. Drawn' = Drawn \cup {h} /\ h \notin Drawn
    BY <2>1, <2>2 DEF Drawn
  <2>4. IsFiniteSet(Drawn)
    BY HartFinite, FS_Subset DEF Drawn
  <2>5. Cardinality(Drawn)' = exit_counter + 1
    <3>1. Cardinality(Drawn \cup {h}) = Cardinality(Drawn) + 1
      BY <2>3, <2>4, FS_AddElement
    <3> QED  BY <2>3, <3>1 DEF ExitInv
  <2>6. \A g \in Hart : LoopDone(g)' = LoopDone(g)
    BY <2>1 DEF LoopDone
  <2>7. \A g \in Drawn' : a0'[g] < exit_counter' /\ LoopDone(g)'
    <3> SUFFICES ASSUME NEW g \in Drawn \cup {h} PROVE a0'[g] < exit_counter' /\ LoopDone(g)'
      BY <2>3
    <3>1. CASE g = h
      BY <2>1, <2>2, <2>6, <3>1
    <3>2. CASE g # h
      BY <2>1, <2>2, <2>6, <3>2 DEF ExitInv, Drawn
    <3> QED  BY <3>1, <3>2
  <2> QED  BY <2>1, <2>2, <2>3, <2>5, <2>7 DEF ExitInv
<1>4. ASSUME NEW h \in Hart, Exit(h) PROVE ExitInv'
  BY <1>4, NoDraw DEF Exit, vars, ExitInv
<1>5. CASE UNCHANGED allVars
  BY <1>5, NoDraw DEF allVars, vars, exitVars, ExitInv
<1> QED  BY <1>1, <1>2, <1>3, <1>4, <1>5 DEF ExitNext

\* bootstrap.S ends the simulation when EXIT_AT is drawn; as long as that is
\* not less than the number of cores minus one, every hart has left its loop
\* and hart 0 has printed the hull by then.
THEOREM ExitIsLast == EXIT_AT >= CORES - 1 /\ ExitSpec => []ExitLast
<1> SUFFICES ASSUME EXIT_AT >= CORES - 1 PROVE ExitSpec => []ExitLast
  OBVIOUS
<1>1. ExitInv => ExitLast
  <2> SUFFICES ASSUME ExitInv, exited PROVE printed /\ \A h \in Hart : LoopDone(h)
    BY DEF ExitLast
  <2>1. PICK h \in Hart : MayExit(h)
    BY DEF ExitInv
  <2>2. h \in Drawn /\ a0[h] \in Int
    BY <2>1, SMT DEF MayExit, Drawn, ExitInv
  <2>3. Cardinality(Drawn) >= CORES
    BY <2>1, <2>2, BarrierAssumption, ShutdownAssumption DEF MayExit, ExitInv
  <2>4. Drawn = Hart
    <3>1. Drawn \subseteq Hart /\ IsFiniteSet(Drawn)
      BY HartFinite, FS_Subset DEF Drawn
    <3>2. Cardinality(Drawn) <= Cardinality(Hart)
          /\ (Cardinality(Drawn) = Cardinality(Hart) => Drawn = Hart)
      BY <3>1, HartFinite, FS_Subset
    <3> QED  BY <2>3, <3>2, HartFinite, BarrierAssumption DEF ExitInv
  <2> QED  BY <2>4, HartFinite DEF ExitInv
<1> QED  BY <1>1, InitExitInv, NextExitInv, PTL DEF ExitSpec
=============================================================================
