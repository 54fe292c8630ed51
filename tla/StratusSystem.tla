---------------------------- MODULE StratusSystem ----------------------------
(***************************************************************************)
(* The synthesizable version: System wires the three searchers to          *)
(* Testbench, whose thread find_UCT feeds REQUESTS pairs of hulls without  *)
(* waiting for results, and whose thread fetch_result collects them and    *)
(* ends the simulation.  Clock cycles are abstracted to interleaving; the  *)
(* searchers are held in reset until find_UCT releases it.                 *)
(***************************************************************************)
EXTENDS SearcherNet

CONSTANT REQUESTS   \* pairs of hulls the testbench sends (5)

ASSUME StratusAssumption ==
  /\ REQUESTS \in Nat \ {0}
  /\ Threads = {"L", "R", "B"}

VARIABLES
  rst,       \* the reset signal, active low
  fed,       \* writes find_UCT has done
  fetched,   \* reads fetch_result has done
  result,    \* result_r_idx and result_q_idx
  stopped    \* sc_stop has been called

tb   == <<rst, fed, fetched, result, stopped>>
vars == <<netVars, tb>>

\* Mutant: the pair is not sent to the second input of CTBSearcherR.
MFeeds == <<"r_l", "q_l", "r_r">>

Feeds   == <<"r_l", "q_l", "r_r", "q_r">>
Fetches == <<"r_idx", "q_idx">>

\* The request and the channel of the (n+1)-th access of a testbench thread.
Round(n, channels) == n \div Len(channels) + 1
Port(n, channels)  == channels[(n % Len(channels)) + 1]

Init ==
  /\ NetInit
  /\ rst = FALSE
  /\ fed = 0
  /\ fetched = 0
  /\ result = [c \in {"r_idx", "q_idx"} |-> {}]
  /\ stopped = FALSE

ReleaseReset ==
  /\ ~stopped /\ ~rst
  /\ rst' = TRUE
  /\ UNCHANGED <<netVars, fed, fetched, result, stopped>>

Feed ==
  /\ ~stopped /\ rst
  /\ fed < REQUESTS * Len(Feeds)
  /\ Send(Port(fed, Feeds), {Round(fed, Feeds)})
  /\ fed' = fed + 1
  /\ UNCHANGED <<at, got, rst, fetched, result, stopped>>

\* Mutant: a read that does not wait (nb_read): it leaves the old result.
MFetch ==
  /\ ~stopped /\ rst
  /\ fetched < REQUESTS * Len(Fetches)
  /\ LET c == Port(fetched, Fetches)
     IN  IF chan[c] = <<>> THEN UNCHANGED <<chan, result>>
         ELSE Receive(c) /\ result' = [result EXCEPT ![c] = Head(chan[c])]
  /\ fetched' = fetched + 1
  /\ UNCHANGED <<at, got, rst, fed, stopped>>

Fetch ==
  /\ ~stopped
  /\ fetched < REQUESTS * Len(Fetches)
  /\ LET c == Port(fetched, Fetches)
     IN  /\ Receive(c)
         /\ result' = [result EXCEPT ![c] = Head(chan[c])]
  /\ fetched' = fetched + 1
  /\ UNCHANGED <<at, got, rst, fed, stopped>>

\* Mutant: sc_stop after one result fewer.
MStop ==
  /\ ~stopped
  /\ fetched = (REQUESTS - 1) * Len(Fetches)
  /\ stopped' = TRUE
  /\ UNCHANGED <<netVars, rst, fed, fetched, result>>

Stop ==
  /\ ~stopped
  /\ fetched = REQUESTS * Len(Fetches)
  /\ stopped' = TRUE
  /\ UNCHANGED <<netVars, rst, fed, fetched, result>>

Search(t) ==
  /\ ~stopped /\ rst
  /\ Run(t)
  /\ UNCHANGED tb

Next == ReleaseReset \/ Feed \/ Fetch \/ Stop \/ \E t \in Threads : Search(t)

\* All of them are threads of one clocked simulation.
Spec ==
  /\ Init /\ [][Next]_vars
  /\ WF_vars(ReleaseReset) /\ WF_vars(Feed) /\ WF_vars(Fetch) /\ WF_vars(Stop)
  /\ \A t \in Threads : WF_vars(Search(t))

-----------------------------------------------------------------------------
(* Properties                                                              *)

\* Whenever both indices of a result have been read they are those of the
\* request of that round (Testbench::fetch_result).
OwnResult ==
  \A c \in DOMAIN result :
    fetched > 0 /\ fetched % Len(Fetches) = 0 => result[c] = {fetched \div Len(Fetches)}

\* When fetch_result stops the simulation every request has been fed and
\* answered, and nothing is left in the pipeline.
Drained == stopped => fed = REQUESTS * Len(Feeds) /\ \A c \in Channel : chan[c] = <<>>

\* The simulation ends: feeding without waiting for results, through channels
\* that fill up, does not lock up the three searchers.
Completes == <>stopped

Fed      == fed \div Len(Feeds)
Answered == fetched \div Len(Fetches) + Len(chan["q_idx"])

Pe == INSTANCE PeService WITH
  Request <- {{k} : k \in 1 .. REQUESTS},
  inq <- [i \in 1 .. Fed - Answered |-> {Answered + i}],
  outq <- chan["q_idx"]

\* To a client that uses the last channel of each round, the pipeline answers
\* requests one by one and in order (module PeService).
ImplementsPe == Pe!PESpec
=============================================================================
