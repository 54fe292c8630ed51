------------------------------ MODULE Lockstep ------------------------------
(***************************************************************************)
(* What the callers of the barrier of sw/convex-hull expect of it: the     *)
(* harts go through the levels of the merge tree in step.  A hart may      *)
(* leave the barrier that ends level k only when every hart has entered    *)
(* it.  Module Barrier, the code, does this up to the first stolen post.   *)
(***************************************************************************)
EXTENDS Integers

CONSTANTS
  Participant,  \* the harts that take part (hart_id < PROCESSORS)
  DEPTH         \* the number of levels, hence of uses of the barrier

VARIABLES
  level,        \* level[h]: how many barriers hart h has left
  inside        \* the harts h that have entered the barrier ending level[h]

lsVars == <<level, inside>>

LSInit ==
  /\ level = [h \in Participant |-> 0]
  /\ inside = {}

Enter(h) ==
  /\ level[h] < DEPTH
  /\ h \notin inside
  /\ inside' = inside \cup {h}
  /\ UNCHANGED level

Leave(h) ==
  /\ h \in inside
  /\ \A g \in Participant : level[g] > level[h] \/ (level[g] = level[h] /\ g \in inside)
  /\ level' = [level EXCEPT ![h] = @ + 1]
  /\ inside' = inside \ {h}

LSNext == \E h \in Participant : Enter(h) \/ Leave(h)

LSFairness == \A h \in Participant : WF_lsVars(Enter(h) \/ Leave(h))

LSSpec == LSInit /\ [][LSNext]_lsVars /\ LSFairness
=============================================================================
