------------------------------ MODULE Semaphore ------------------------------
(***************************************************************************)
(* sem_init, sem_wait and sem_post of sw/convex-hull/semaphore.h at the    *)
(* level of their accesses to the shared word: a plain store, and loops of *)
(* a load-reserved and a store-conditional.                                *)
(*                                                                         *)
(* LR and SC are the RISC-V A extension as the processor model provides it *)
(* (that model is not part of the repository): the reservation of a hart   *)
(* ends with every store to the word, with its own SC, and possibly for no *)
(* visible reason, and an SC without a reservation stores nothing.         *)
(***************************************************************************)
EXTENDS Integers

CONSTANTS
  Hart,      \* the harts that share the semaphore
  Starter,   \* the hart that runs sem_init (hart 0)
  Count,     \* the count it is initialised with
  MaxCount   \* bound: no call of sem_post beyond this count

ASSUME SemaphoreAssumption ==
  /\ Starter \in Hart
  /\ Count \in Nat
  /\ MaxCount \in Nat

VARIABLES
  sem,       \* the shared word *__sem
  pc,        \* pc[h]: the next access of hart h to the word
  value,     \* value[h]: the register %[value] of the loops
  reserved   \* the harts that hold a reservation

vars == <<sem, pc, value, reserved>>

\* The word is zero (.bss) and hart Starter is about to call sem_init.
Init ==
  /\ sem = 0
  /\ pc = [h \in Hart |-> IF h = Starter THEN "init" ELSE "idle"]
  /\ value = [h \in Hart |-> 0]
  /\ reserved = {}

Goto(h, l) == pc' = [pc EXCEPT ![h] = l]

-----------------------------------------------------------------------------
(* The processor (external).                                               *)

LoadReserved(h) == reserved' = reserved \cup {h}

\* A store to the word by anybody ends every reservation on it.
Store(v) ==
  /\ sem' = v
  /\ reserved' = {}

\* A reservation may be lost for reasons outside the program.
LoseReservation(h) ==
  /\ h \in reserved
  /\ reserved' = reserved \ {h}
  /\ UNCHANGED <<sem, pc, value>>

\* SC stores v and the loop ends, or it fails and the loop starts again.
StoreConditional(h, v, again) ==
  \/ /\ h \in reserved
     /\ Store(v)
     /\ Goto(h, "idle")
  \/ /\ h \notin reserved
     /\ Goto(h, again)
     /\ UNCHANGED <<sem, reserved>>

-----------------------------------------------------------------------------
(* The operations.                                                         *)

SemInit ==
  /\ pc[Starter] = "init"
  /\ Store(Count)
  /\ Goto(Starter, "idle")
  /\ UNCHANGED value

CallWait(h) ==
  /\ pc[h] = "idle"
  /\ Goto(h, "wait_lr")
  /\ UNCHANGED <<sem, value, reserved>>

\* The program posts a semaphore only after its initialisation.
CallPost(h) ==
  /\ pc[h] = "idle"
  /\ pc[Starter] # "init"
  /\ sem < MaxCount
  /\ Goto(h, "post_lr")
  /\ UNCHANGED <<sem, value, reserved>>

\* Mutant: the beqz is missing.
MWaitLoad(h) ==
  /\ pc[h] = "wait_lr"
  /\ LoadReserved(h)
  /\ value' = [value EXCEPT ![h] = sem - 1]
  /\ Goto(h, "wait_sc")
  /\ UNCHANGED sem

\* lr.w; beqz: if zero, try again; addi -1.
WaitLoad(h) ==
  /\ pc[h] = "wait_lr"
  /\ LoadReserved(h)
  /\ value' = [value EXCEPT ![h] = IF sem = 0 THEN 0 ELSE sem - 1]
  /\ Goto(h, IF sem = 0 THEN "wait_lr" ELSE "wait_sc")
  /\ UNCHANGED sem

\* Mutant: the bnez is missing: a failed store counts as done.
MWaitStore(h) ==
  /\ pc[h] = "wait_sc"
  /\ StoreConditional(h, value[h], "idle")
  /\ UNCHANGED value

\* sc.w; bnez: if the store failed, try again.
WaitStore(h) ==
  /\ pc[h] = "wait_sc"
  /\ StoreConditional(h, value[h], "wait_lr")
  /\ UNCHANGED value

\* Mutant: the loop increments the register again instead of the loaded word.
MPostLoad(h) ==
  /\ pc[h] = "post_lr"
  /\ LoadReserved(h)
  /\ value' = [value EXCEPT ![h] = @ + 1]
  /\ Goto(h, "post_sc")
  /\ UNCHANGED sem

\* lr.w; addi 1.
PostLoad(h) ==
  /\ pc[h] = "post_lr"
  /\ LoadReserved(h)
  /\ value' = [value EXCEPT ![h] = sem + 1]
  /\ Goto(h, "post_sc")
  /\ UNCHANGED sem

PostStore(h) ==
  /\ pc[h] = "post_sc"
  /\ StoreConditional(h, value[h], "post_lr")
  /\ UNCHANGED value

-----------------------------------------------------------------------------

\* A hart inside sem_wait or sem_post executes its next access.
Run(h) == WaitLoad(h) \/ WaitStore(h) \/ PostLoad(h) \/ PostStore(h)

Next ==
  \/ SemInit
  \/ \E h \in Hart :
       CallWait(h) \/ CallPost(h) \/ Run(h) \/ LoseReservation(h)

Spec == Init /\ [][Next]_vars

\* An SC that takes effect.
Succeed == \E h \in Hart : h \in reserved /\ (WaitStore(h) \/ PostStore(h))

\* Harts keep executing, and of the SCs that are tried again and again one
\* succeeds: both loops are constrained LR/SC loops, for which the processor
\* has to guarantee it.  No particular hart is promised success, and no hart
\* is promised to call anything.
Fairness ==
  /\ WF_vars(SemInit)
  /\ \A h \in Hart : WF_vars(Run(h))
  /\ SF_vars(Succeed)

FairSpec == Spec /\ Fairness

-----------------------------------------------------------------------------
(* Properties                                                              *)

\* The values of the variables; the word never goes below zero.
TypeOK ==
  /\ sem \in Nat
  /\ pc \in [Hart -> {"idle", "init", "wait_lr", "wait_sc", "post_lr", "post_sc"}]
  /\ value \in [Hart -> Nat]
  /\ reserved \subseteq Hart

\* A hart whose SC would succeed has computed its value from the word as it
\* still is: no update by another hart can be overwritten.
NoLostUpdate ==
  \A h \in reserved :
    /\ pc[h] = "wait_sc" => sem > 0 /\ value[h] = sem - 1
    /\ pc[h] = "post_sc" => value[h] = sem + 1

\* The operation of the abstract semaphore hart h is executing.
Operation(h) ==
  IF pc[h] \in {"wait_lr", "wait_sc"} THEN "wait"
  ELSE IF pc[h] \in {"post_lr", "post_sc"} THEN "post" ELSE pc[h]

Abstract == INSTANCE CountingSemaphore WITH op <- [h \in Hart |-> Operation(h)]

\* The loops implement the atomic operations, and some pending operation that
\* can take effect eventually does (no livelock of the LR/SC loops).
ImplementsCounting == Abstract!CSSpec
=============================================================================
