-------------------------- MODULE CountingSemaphore --------------------------
(***************************************************************************)
(* What sem_init, sem_wait and sem_post promise: a counting semaphore whose *)
(* operations take effect at one instant between call and return.  Module  *)
(* Barrier and module AccDma are written against this specification;       *)
(* module Semaphore is the code.                                           *)
(***************************************************************************)
EXTENDS Integers

CONSTANTS
  Hart,      \* the harts that share the semaphore
  Starter,   \* the hart that runs sem_init
  Count,     \* the count it is initialised with
  MaxCount   \* bound: no call of sem_post beyond this count

VARIABLES
  sem,       \* the count
  op         \* op[h]: the operation hart h is executing

csVars == <<sem, op>>

CSInit ==
  /\ sem = 0
  /\ op = [h \in Hart |-> IF h = Starter THEN "init" ELSE "idle"]


Return(h) == op' = [op EXCEPT ![h] = "idle"]

Initialise ==
  /\ op[Starter] = "init"
  /\ sem' = Count
  /\ Return(Starter)

CallWait(h) ==
  /\ op[h] = "idle"
  /\ op' = [op EXCEPT ![h] = "wait"]
  /\ UNCHANGED sem

\* A semaphore is posted only after it was initialised.
CallPost(h) ==
  /\ op[h] = "idle"
  /\ op[Starter] # "init"
  /\ sem < MaxCount
  /\ op' = [op EXCEPT ![h] = "post"]
  /\ UNCHANGED sem

Take(h) ==
  /\ op[h] = "wait"
  /\ sem > 0
  /\ sem' = sem - 1
  /\ Return(h)

Give(h) ==
  /\ op[h] = "post"
  /\ sem' = sem + 1
  /\ Return(h)

CSNext ==
  \/ Initialise
  \/ \E h \in Hart : CallWait(h) \/ CallPost(h) \/ Take(h) \/ Give(h)

\* As long as some operation can take effect, some operation does.
CSFairness == WF_csVars(Initialise) /\ WF_csVars(\E h \in Hart : Take(h) \/ Give(h))

CSSpec == CSInit /\ [][CSNext]_csVars /\ CSFairness
=============================================================================
