----------------------------- MODULE SearcherNet -----------------------------
(***************************************************************************)
(* The threads CTBSearcherL, CTBSearcherR and CTSearcherB (and, in the TLM *)
(* versions, CTSearcher around them) with the channels that join them.  A  *)
(* thread runs through a fixed sequence of blocking reads and writes for   *)
(* ever.  What it computes in between is in module TangentSearch; here a   *)
(* token is the set of requests whose data went into it, and a thread      *)
(* writes the union of what it has read in this round.                     *)
(*                                                                         *)
(* The channels are sc_fifo or cynw_p2p, which are external: a write       *)
(* blocks while the channel is full, a read while it is empty.  SystemC    *)
(* switches threads only where one waits; here they interleave at every    *)
(* access, which allows all orders of the clocked version too.             *)
(***************************************************************************)
EXTENDS Integers, Sequences

CONSTANTS
  Threads,   \* which of L, R, B and CT there are
  CAPACITY   \* tokens a channel holds (16 in an sc_fifo, fewer in hardware)

ASSUME SearcherNetAssumption ==
  /\ Threads \subseteq {"L", "R", "B", "CT"}
  /\ CAPACITY \in Nat \ {0}

VARIABLES
  chan,   \* chan[c]: the tokens in channel c
  at,     \* at[t]: the next operation of thread t
  got     \* got[t]: the requests thread t has data of in this round

netVars == <<chan, at, got>>

Channel == {"r_l", "q_l", "r_r", "q_r", "r_block", "r_start_idx", "q_block",
            "q_start_idx", "r_idx", "q_idx", "i_r", "i_q", "o_r_idx", "o_q_idx"}

Get(c) == <<"get", c>>
Put(c) == <<"put", c>>

\* One pass of the loop of each thread.
ProgramL == <<Get("r_l"), Get("q_l"), Put("r_block"), Put("r_start_idx")>>

\* Mutant: the start index is written twice.
MProgramR == <<Get("r_r"), Get("q_r"), Put("q_block"), Put("q_start_idx"), Put("q_start_idx")>>

ProgramR == <<Get("r_r"), Get("q_r"), Put("q_block"), Put("q_start_idx")>>

\* Mutant: r_start_idx is read only every other time r_block is.
MProgramB ==
  <<Get("r_block"), Get("q_block"), Get("q_start_idx"), Put("r_idx"), Put("q_idx"),
    Get("r_block"), Get("q_block"), Get("r_start_idx"), Get("q_start_idx"),
    Put("r_idx"), Put("q_idx")>>

ProgramB == <<Get("r_block"), Get("q_block"), Get("r_start_idx"), Get("q_start_idx"),
              Put("r_idx"), Put("q_idx")>>

\* Mutant: q_l is not forwarded.
MProgramCT == <<Get("i_r"), Get("i_q"), Put("r_l"), Put("r_r"), Put("q_r"),
                Get("r_idx"), Get("q_idx"), Put("o_r_idx"), Put("o_q_idx")>>

ProgramCT == <<Get("i_r"), Get("i_q"), Put("r_l"), Put("r_r"), Put("q_l"), Put("q_r"),
               Get("r_idx"), Get("q_idx"), Put("o_r_idx"), Put("o_q_idx")>>

Program == [L |-> ProgramL, R |-> ProgramR, B |-> ProgramB, CT |-> ProgramCT]

NetInit ==
  /\ chan = [c \in Channel |-> <<>>]
  /\ at = [t \in Threads |-> 1]
  /\ got = [t \in Threads |-> {}]

\* Mutant: a write that waits one token too late.
MSend(c, token) ==
  /\ Len(chan[c]) <= CAPACITY
  /\ chan' = [chan EXCEPT ![c] = Append(@, token)]

Send(c, token) ==
  /\ Len(chan[c]) < CAPACITY
  /\ chan' = [chan EXCEPT ![c] = Append(@, token)]

Receive(c) ==
  /\ chan[c] # <<>>
  /\ chan' = [chan EXCEPT ![c] = Tail(@)]

\* Thread t has data of requests now; on to its next operation.
Advance(t, now) ==
  LET last == at[t] = Len(Program[t])
  IN  /\ at' = [at EXCEPT ![t] = IF last THEN 1 ELSE @ + 1]
      /\ got' = [got EXCEPT ![t] = IF last THEN {} ELSE now]

Read(t) ==
  \E c \in Channel :
    /\ Program[t][at[t]] = Get(c)
    /\ Receive(c)
    /\ Advance(t, got[t] \cup Head(chan[c]))

Write(t) ==
  \E c \in Channel :
    /\ Program[t][at[t]] = Put(c)
    /\ Send(c, got[t])
    /\ Advance(t, got[t])

Run(t) == Read(t) \/ Write(t)

-----------------------------------------------------------------------------

\* The tokens are sets of requests, no channel holds more than it can, and
\* every thread is inside its loop.
NetTypeOK ==
  /\ chan \in [Channel -> Seq(SUBSET Nat)]
  /\ \A c \in Channel : Len(chan[c]) <= CAPACITY
  /\ at \in [Threads -> Nat] /\ \A t \in Threads : at[t] \in DOMAIN Program[t]
  /\ got \in [Threads -> SUBSET Nat]

\* Blocks, start indices and tangent indices are combined only with those of
\* the same request, although each travels through a channel of its own and
\* the searchers L and R run at their own speed (CTBSearcherL::searchCTB,
\* CTBSearcherR::searchCTB, CTSearcherB::searchCT).
InStep ==
  /\ \A t \in Threads : \A k, l \in got[t] : k = l
  /\ \A c \in Channel : \A i \in DOMAIN chan[c] : \A k, l \in chan[c][i] : k = l
=============================================================================
