------------------------------ MODULE Turnstile ------------------------------
(***************************************************************************)
(* What the barrier of sw/convex-hull does for its callers whatever their  *)
(* timing: it lets N harts through for every N that have come, but not     *)
(* always the harts that came first.  A hart that has been through and is  *)
(* back may take a permit of one that is still there.  Lockstep is what    *)
(* its callers expect; module Barrier is the code.                         *)
(***************************************************************************)
EXTENDS Integers

CONSTANTS
  Participant,  \* the harts that take part
  DEPTH,        \* how often each of them comes
  N             \* how many must have come for it to open

VARIABLES
  level,        \* level[h]: how often hart h has been through
  inside,       \* the harts in front of it
  come,         \* how many have come since it was opened last
  permits       \* how many of those inside may go through

tVars == <<level, inside, come, permits>>

TInit ==
  /\ level = [h \in Participant |-> 0]
  /\ inside = {}
  /\ come = 0
  /\ permits = 0

\* The N-th hart opens it, for itself and N - 1 others.
Enter(h) ==
  /\ level[h] < DEPTH
  /\ h \notin inside
  /\ inside' = inside \cup {h}
  /\ \/ come < N - 1 /\ come' = come + 1 /\ UNCHANGED permits
     \/ come = N - 1 /\ come' = 0 /\ permits' = permits + N
  /\ UNCHANGED level

Leave(h) ==
  /\ h \in inside
  /\ permits > 0
  /\ permits' = permits - 1
  /\ inside' = inside \ {h}
  /\ level' = [level EXCEPT ![h] = @ + 1]
  /\ UNCHANGED come

TNext == \E h \in Participant : Enter(h) \/ Leave(h)

TFairness == \A h \in Participant : WF_tVars(Enter(h) \/ Leave(h))

TSpec == TInit /\ [][TNext]_tVars /\ TFairness
=============================================================================
