------------------------------ MODULE PeService ------------------------------
(***************************************************************************)
(* What a tangent searcher promises, whichever way it is built: requests   *)
(* are answered one by one in the order they came in, each answer computed *)
(* from one request, and no request is left unanswered.  Module AccDma     *)
(* takes its PEs to be like this.                                          *)
(***************************************************************************)
EXTENDS Sequences

CONSTANT Request

VARIABLES
  inq,   \* requests that have come in
  outq   \* answers ready to be taken, each named after its request

peVars == <<inq, outq>>

PEInit == inq = <<>> /\ outq = <<>>

Accept ==
  /\ \E request \in Request : inq' = Append(inq, request)
  /\ UNCHANGED outq

Answer ==
  /\ inq # <<>>
  /\ outq' = Append(outq, Head(inq))
  /\ inq' = Tail(inq)

Take ==
  /\ outq # <<>>
  /\ outq' = Tail(outq)
  /\ UNCHANGED inq

PESafety == PEInit /\ [][Accept \/ Answer \/ Take]_peVars

PESpec == PESafety /\ WF_peVars(Answer)
=============================================================================
