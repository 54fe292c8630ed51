--------------------------- MODULE SemaphoreProofs ---------------------------
(***************************************************************************)
(* Theorems about Semaphore for any set of harts: the LR/SC loops never    *)
(* overwrite another hart's update, and they implement the atomic counting *)
(* semaphore (safety; that some operation takes effect is checked by TLC). *)
(***************************************************************************)
EXTENDS Semaphore, TLAPS

SemInv == TypeOK /\ NoLostUpdate

-----------------------------------------------------------------------------

\* The zeroed word and the idle harts satisfy the invariant.
LEMMA SemInvInit == Init => SemInv
BY SemaphoreAssumption DEF Init, SemInv, TypeOK, NoLostUpdate

\* Every access to the word, by any hart, preserves the invariant: a store
\* ends the reservations whose harts hold a value of the word as it was.
LEMMA SemInvNext == SemInv /\ [Next]_vars => SemInv'
<1> SUFFICES ASSUME SemInv, [Next]_vars PROVE SemInv'
  OBVIOUS
<1> USE SemaphoreAssumption DEF SemInv, TypeOK, NoLostUpdate, Goto, Store
<1>1. CASE SemInit
  BY <1>1 DEF SemInit
<1>2. ASSUME NEW h \in Hart, CallWait(h) \/ CallPost(h) PROVE SemInv'
  BY <1>2 DEF CallWait, CallPost
<1>3. ASSUME NEW h \in Hart, WaitLoad(h) PROVE SemInv'
  BY <1>3 DEF WaitLoad, LoadReserved
<1>4. ASSUME NEW h \in Hart, PostLoad(h) PROVE SemInv'
  BY <1>4 DEF PostLoad, LoadReserved
<1>5. ASSUME NEW h \in Hart, WaitStore(h) PROVE SemInv'
  BY <1>5 DEF WaitStore, StoreConditional
<1>6. ASSUME NEW h \in Hart, PostStore(h) PROVE SemInv'
  BY <1>6 DEF PostStore, StoreConditional
<1>7. ASSUME NEW h \in Hart, LoseReservation(h) PROVE SemInv'
  BY <1>7 DEF LoseReservation
<1>8. CASE UNCHANGED vars
  BY <1>8 DEF vars
<1> QED
  BY <1>1, <1>2, <1>3, <1>4, <1>5, <1>6, <1>7, <1>8 DEF Next, Run

\* The word stays a natural number: sem_wait never decrements a zero.
THEOREM TypeCorrect == Spec => []TypeOK
<1>1. SemInv => TypeOK
  BY DEF SemInv
<1> QED  BY <1>1, SemInvInit, SemInvNext, PTL DEF Spec

\* No sem_wait or sem_post overwrites the effect of another.
THEOREM NoUpdateIsLost == Spec => []NoLostUpdate
<1>1. SemInv => NoLostUpdate
  BY DEF SemInv
<1> QED  BY <1>1, SemInvInit, SemInvNext, PTL DEF Spec

-----------------------------------------------------------------------------

\* The abstract operations in progress.
Operations == [h \in Hart |-> Operation(h)]

\* Moving hart h between two program points moves its abstract operation only.
LEMMA OperationMove ==
  ASSUME TypeOK, NEW h \in Hart, NEW l, pc' = [pc EXCEPT ![h] = l]
  PROVE  Operations' = [Operations EXCEPT ![h] = Operation(h)']
BY DEF TypeOK, Operations, Operation

\* Every access is a step of the atomic semaphore or invisible to it: only a
\* store-conditional that succeeds takes effect.
LEMMA CountingStep ==
  ASSUME SemInv, [Next]_vars
  PROVE  [Abstract!CSNext]_(Abstract!csVars)
<1> USE SemaphoreAssumption DEF SemInv, Goto, Store
<1>1. SUFFICES \/ Abstract!Initialise
               \/ \E h \in Hart : \/ Abstract!CallWait(h) \/ Abstract!CallPost(h)
                                  \/ Abstract!Take(h) \/ Abstract!Give(h)
               \/ UNCHANGED <<sem, Operations>>
  BY DEF Abstract!CSNext, Abstract!csVars, Operations
<1>2. ASSUME NEW h \in Hart, NEW l, pc' = [pc EXCEPT ![h] = l],
             Operation(h)' = Operation(h)
      PROVE  Operations' = Operations
  BY <1>2, OperationMove DEF Operations
<1>3. CASE SemInit
  <2>1. Operation(Starter) = "init" /\ Operation(Starter)' = "idle"
    BY <1>3 DEF SemInit, TypeOK, Operation
  <2>2. Operations' = [Operations EXCEPT ![Starter] = "idle"]
    BY <1>3, <2>1, OperationMove DEF SemInit
  <2> QED
    BY <1>3, <2>1, <2>2 DEF SemInit, Abstract!Initialise, Abstract!Return, Operations
<1>4. ASSUME NEW h \in Hart, CallWait(h) PROVE Abstract!CallWait(h)
  <2>1. Operation(h) = "idle" /\ Operation(h)' = "wait"
    BY <1>4 DEF CallWait, TypeOK, Operation
  <2>2. Operations' = [Operations EXCEPT ![h] = "wait"]
    BY <1>4, <2>1, OperationMove DEF CallWait
  <2> QED  BY <1>4, <2>1, <2>2 DEF CallWait, Abstract!CallWait, Operations
<1>5. ASSUME NEW h \in Hart, CallPost(h) PROVE Abstract!CallPost(h)
  <2>1. Operation(h) = "idle" /\ Operation(h)' = "post" /\ Operation(Starter) # "init"
    BY <1>5 DEF CallPost, TypeOK, Operation
  <2>2. Operations' = [Operations EXCEPT ![h] = "post"]
    BY <1>5, <2>1, OperationMove DEF CallPost
  <2> QED  BY <1>5, <2>1, <2>2 DEF CallPost, Abstract!CallPost, Operations
<1>6. ASSUME NEW h \in Hart, WaitLoad(h) \/ PostLoad(h)
      PROVE  UNCHANGED <<sem, Operations>>
  <2>1. Operation(h)' = Operation(h) /\ UNCHANGED sem
    BY <1>6 DEF WaitLoad, PostLoad, TypeOK, Operation
  <2> QED  BY <1>2, <1>6, <2>1 DEF WaitLoad, PostLoad
<1>7. ASSUME NEW h \in Hart, WaitStore(h) \/ PostStore(h), h \notin reserved
      PROVE  UNCHANGED <<sem, Operations>>
  <2>1. Operation(h)' = Operation(h) /\ UNCHANGED sem
    BY <1>7 DEF WaitStore, PostStore, StoreConditional, TypeOK, Operation
  <2> QED  BY <1>2, <1>7, <2>1 DEF WaitStore, PostStore, StoreConditional
<1>8. ASSUME NEW h \in Hart, WaitStore(h), h \in reserved PROVE Abstract!Take(h)
  <2>1. Operation(h) = "wait" /\ Operation(h)' = "idle" /\ sem > 0 /\ sem' = sem - 1
    BY <1>8 DEF WaitStore, StoreConditional, TypeOK, NoLostUpdate, Operation
  <2>2. Operations' = [Operations EXCEPT ![h] = "idle"]
    BY <1>8, <2>1, OperationMove DEF WaitStore, StoreConditional
  <2> QED  BY <2>1, <2>2 DEF Abstract!Take, Abstract!Return, Operations
<1>9. ASSUME NEW h \in Hart, PostStore(h), h \in reserved PROVE Abstract!Give(h)
  <2>1. Operation(h) = "post" /\ Operation(h)' = "idle" /\ sem' = sem + 1
    BY <1>9 DEF PostStore, StoreConditional, TypeOK, NoLostUpdate, Operation
  <2>2. Operations' = [Operations EXCEPT ![h] = "idle"]
    BY <1>9, <2>1, OperationMove DEF PostStore, StoreConditional
  <2> QED  BY <2>1, <2>2 DEF Abstract!Give, Abstract!Return, Operations
<1>10. ASSUME NEW h \in Hart, LoseReservation(h) PROVE UNCHANGED <<sem, Operations>>
  BY <1>10 DEF LoseReservation, Operations, Operation
<1>11. CASE UNCHANGED vars
  BY <1>11 DEF vars, Operations, Operation
<1> QED
  BY <1>3, <1>4, <1>5, <1>6, <1>7, <1>8, <1>9, <1>10, <1>11 DEF Next, Run

\* The LR/SC loops implement the atomic counting semaphore (its safety part),
\* for every number of harts and whatever reservations are lost.
THEOREM CountingImplemented ==
  Spec => Abstract!CSInit /\ [][Abstract!CSNext]_(Abstract!csVars)
<1>1. Init => Abstract!CSInit
  BY DEF Init, Abstract!CSInit, Operation
<1>2. SemInv /\ [Next]_vars => [Abstract!CSNext]_(Abstract!csVars)
  BY CountingStep
<1> QED  BY <1>1, <1>2, SemInvInit, SemInvNext, PTL DEF Spec
=============================================================================
