------------------------------ MODULE Shutdown ------------------------------
(***************************************************************************)
(* The end of the program: module Barrier, hart 0 printing the hull after  *)
(* its last level, and the code of bootstrap.S every hart returns to.  A   *)
(* hart draws a number from exit_counter into a register and compares the  *)
(* register with EXIT_AT; it never loads the counter again, so only the    *)
(* hart that draws the last number makes the exit call, which stops the    *)
(* simulation of all harts, and the others spin for ever.                  *)
(***************************************************************************)
EXTENDS Barrier

CONSTANT EXIT_AT   \* the number that is compared with (4 in bootstrap.S)

ASSUME ShutdownAssumption == EXIT_AT \in Nat

VARIABLES
  printed,        \* hart 0 has printed the result
  exit_counter,
  a0,             \* a0[h]: the number h has drawn, -1 before
  exited          \* the simulation is over

exitVars == <<printed, exit_counter, a0, exited>>
allVars  == <<vars, exitVars>>

ExitInit ==
  /\ Init
  /\ printed = FALSE
  /\ exit_counter = 0
  /\ a0 = [h \in Hart |-> -1]
  /\ exited = FALSE

\* Hart h is through with the level loop, or never entered it.
LoopDone(h) == h \notin Participant \/ pc[h] = "done"

PrintHull ==
  /\ ~exited
  /\ LoopDone(0) /\ ~printed
  /\ printed' = TRUE
  /\ UNCHANGED <<vars, exit_counter, a0, exited>>

\* amoadd.w: one step, whatever other harts do.
Draw(h) ==
  /\ ~exited
  /\ LoopDone(h) /\ a0[h] = -1
  /\ h = 0 => printed
  /\ a0' = [a0 EXCEPT ![h] = exit_counter]
  /\ exit_counter' = exit_counter + 1
  /\ UNCHANGED <<vars, printed, exited>>

\* Mutant: the number is compared with one less.
MMayExit(h) == a0[h] >= 0 /\ a0[h] >= EXIT_AT - 1

\* The loop "blt a0, t2" ends at once or never.
MayExit(h) == a0[h] >= 0 /\ a0[h] >= EXIT_AT

\* Mutant: the comparison is with one more.
MExit(h) ==
  /\ ~exited
  /\ a0[h] > EXIT_AT
  /\ exited' = TRUE
  /\ UNCHANGED <<vars, printed, exit_counter, a0>>

Exit(h) ==
  /\ ~exited
  /\ MayExit(h)
  /\ exited' = TRUE
  /\ UNCHANGED <<vars, printed, exit_counter, a0>>

Level(h) == ~exited /\ Step(h) /\ UNCHANGED exitVars
Initialise == ~exited /\ (InitLock \/ InitSem) /\ UNCHANGED exitVars

ExitNext ==
  \/ Initialise \/ PrintHull
  \/ \E h \in Participant : Level(h)
  \/ \E h \in Hart : Draw(h) \/ Exit(h)

\* As in Barrier, a core that can execute its next instruction does.
ExitSpec ==
  /\ ExitInit /\ [][ExitNext]_allVars
  /\ WF_allVars(Initialise) /\ WF_allVars(PrintHull)
  /\ \A h \in Participant : WF_allVars(Level(h))
  /\ \A h \in Hart : WF_allVars(Draw(h)) /\ WF_allVars(Exit(h))

-----------------------------------------------------------------------------
(* Properties                                                              *)

\* bootstrap.S:67 "wait until all cores have finished": nobody ends the
\* simulation while a hart is still in its loop or the hull is not printed.
ExitLast == exited => printed /\ \A h \in Hart : LoopDone(h)

\* The program ends, unless a post is stolen: all harts get through all levels
\* and one of them exits.
EndsUnlessStolen == []Orderly => <>exited
=============================================================================
