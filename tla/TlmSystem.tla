------------------------------ MODULE TlmSystem ------------------------------
(***************************************************************************)
(* The TLM version: Testbench::find_UCT reaches the searcher CTSearcher    *)
(* through Initiator and SimpleBus.  It writes one pair of hulls, polls    *)
(* CHECK until a result is there, waits 970 clock periods, reads RESULT,   *)
(* and does so REQUESTS times.                                             *)
(*                                                                         *)
(* A transport call runs in the caller's thread, from Initiator through    *)
(* the bus into CTSearcher::blocking_transport, which may block at a       *)
(* channel; delays only let the other threads run.                         *)
(***************************************************************************)
EXTENDS SearcherNet, MemoryMap

CONSTANT REQUESTS   \* pairs of hulls the testbench sends (5)

ASSUME TlmAssumption ==
  /\ REQUESTS \in Nat \ {0}
  /\ Threads = {"L", "R", "B", "CT"}

VARIABLES
  pc,         \* where find_UCT is, inside the transport calls too
  k,          \* requests it is through with
  output_num, \* what CHECK last returned
  result      \* result_r_idx and result_q_idx

tb   == <<pc, k, output_num, result>>
vars == <<netVars, tb>>

\* Mutant: the window ends before the last register.
MDecodes ==
  SetDecode(NoDecodes, 0, ToAddr(CTSEARCHER_MM_BASE),
            ToAddr(CTSEARCHER_MM_BASE + CTSEARCHER_CHECK_ADDR - 1))

\* The one window that sc_main sets up.
Decodes ==
  SetDecode(NoDecodes, 0, ToAddr(CTSEARCHER_MM_BASE),
            ToAddr(CTSEARCHER_MM_BASE + CTSEARCHER_MM_SIZE - 1))

Init ==
  /\ NetInit
  /\ pc = "write"
  /\ k = 0
  /\ output_num = 0
  /\ result = [r |-> {}, q |-> {}]

\* The address find_UCT passes to the initiator in its next transport call.
Address ==
  LET register == [write |-> CTSEARCHER_R_ADDR, check |-> CTSEARCHER_CHECK_ADDR,
                   result |-> CTSEARCHER_RESULT_ADDR]
  IN  ToAddr(CTSEARCHER_MM_BASE + register[pc])

\* The switch of blocking_transport: a read of any other register ends the
\* program, such a write is only reported.
Dispatch(register) ==
  IF pc = "write"
    THEN IF register = CTSEARCHER_R_ADDR THEN "write_r" ELSE "check"
    ELSE IF register = CTSEARCHER_CHECK_ADDR THEN "poll"
    ELSE IF register = CTSEARCHER_RESULT_ADDR THEN "result_r"
    ELSE "aborted"

\* Initiator and bus, which asserts that some window holds the address.
Transport ==
  /\ pc \in {"write", "check", "result"}
  /\ pc' = IF PortsOf(Decodes, Address) = {} THEN "aborted"
           ELSE Dispatch(Masked(Decodes, Address))
  /\ UNCHANGED <<netVars, k, output_num, result>>

\* The write of R, as far as i_r.
WriteR ==
  /\ pc = "write_r"
  /\ Send("i_r", {k + 1})
  /\ pc' = "write_q"
  /\ UNCHANGED <<at, got, k, output_num, result>>

\* ... and i_q; output_num starts at 0.
WriteQ ==
  /\ pc = "write_q"
  /\ Send("i_q", {k + 1})
  /\ pc' = "check"
  /\ output_num' = 0
  /\ UNCHANGED <<at, got, k, result>>

\* Mutant: only the first output is looked at.
MAvailable == Len(chan["o_r_idx"])

Available ==
  LET r == Len(chan["o_r_idx"])
      q == Len(chan["o_q_idx"])
  IN  IF r <= q THEN r ELSE q

\* CHECK: what can be read from both outputs.
Check ==
  /\ pc = "poll"
  /\ output_num' = Available
  /\ pc' = "polled"
  /\ UNCHANGED <<netVars, k, result>>

\* while (output_num <= 0), and after it the fixed delay.
Poll ==
  /\ pc = "polled"
  /\ pc' = IF output_num <= 0 THEN "check" ELSE "result"
  /\ UNCHANGED <<netVars, k, output_num, result>>

ReadR ==
  /\ pc = "result_r"
  /\ Receive("o_r_idx")
  /\ result' = [result EXCEPT !.r = Head(chan["o_r_idx"])]
  /\ pc' = "result_q"
  /\ UNCHANGED <<at, got, k, output_num>>

\* ... and on to the next request, after the last one sc_stop.
ReadQ ==
  /\ pc = "result_q"
  /\ Receive("o_q_idx")
  /\ result' = [result EXCEPT !.q = Head(chan["o_q_idx"])]
  /\ k' = k + 1
  /\ pc' = IF k + 1 = REQUESTS THEN "stopped" ELSE "write"
  /\ UNCHANGED <<at, got, output_num>>

find_UCT == Transport \/ WriteR \/ WriteQ \/ Check \/ Poll \/ ReadR \/ ReadQ

Search(t) ==
  /\ pc \notin {"stopped", "aborted"}
  /\ Run(t)
  /\ UNCHANGED tb

Next == find_UCT \/ \E t \in Threads : Search(t)

\* Every SystemC thread that can go on does: polling takes bus cycles, during
\* which the searcher runs.
Spec == Init /\ [][Next]_vars /\ WF_vars(find_UCT) /\ \A t \in Threads : WF_vars(Search(t))

-----------------------------------------------------------------------------
(* Properties                                                              *)

\* A positive CHECK is a promise: the read of RESULT that follows finds both
\* indices and does not block in the middle of the transport call.
ResultReady ==
  /\ output_num > 0 /\ pc \in {"polled", "result", "result_r"} => Available > 0
  /\ pc = "result_q" => chan["o_q_idx"] # <<>>

\* Each result is that of the hulls written in the same round.
OwnResult == k > 0 /\ pc # "result_q" => result.r = {k} /\ result.q = {k}

\* Initiator and SimpleBus deliver every access to the register it is meant
\* for: base and window end are sign-extended alike (MemoryMap::getPortId).
NeverAborts == pc # "aborted"

\* find_UCT reaches sc_stop.
Completes == <>(pc = "stopped")

Accepted == IF pc \in {"check", "poll", "polled", "result", "result_r", "result_q"} THEN k + 1 ELSE k
Answered == k + Len(chan["o_q_idx"])

Pe == INSTANCE PeService WITH
  Request <- {{i} : i \in 1 .. REQUESTS},
  inq <- [i \in 1 .. Accepted - Answered |-> {Answered + i}],
  outq <- chan["o_q_idx"]

\* Behind its registers the searcher answers requests one by one and in order.
ImplementsPe == Pe!PESpec
=============================================================================
