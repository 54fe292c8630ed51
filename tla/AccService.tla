----------------------------- MODULE AccService -----------------------------
(***************************************************************************)
(* The accelerator as main.c is written to see it: write_data_to_ACC hands *)
(* the points of this pair to the hart's own PE, read_data_from_ACC leaves *)
(* the indices of this pair in data[0..1], each at one instant before the  *)
(* call is over.  Module AccDma is the code.                               *)
(***************************************************************************)
EXTENDS Integers, Sequences

CONSTANTS Hart, PAIRS

VARIABLES
  step,   \* step[h]: "pack", "send", "fetch", "merge" or "done"
  pair,   \* pair[h]: pairs hart h has merged
  head,   \* head[h]: what data[0..1] of hart h holds
  inq,    \* inq[h]: requests in PE h
  outq    \* outq[h]: results in PE h

asVars == <<step, pair, head, inq, outq>>

Points(h, i)     == <<"points", h, i>>
Indices(request) == <<"indices", request>>
Request(h)       == [head |-> Points(h, pair[h]), tail |-> Points(h, pair[h])]

ASInit ==
  /\ step = [h \in Hart |-> "pack"]
  /\ pair = [h \in Hart |-> 0]
  /\ head = [h \in Hart |-> <<"none">>]
  /\ inq = [h \in Hart |-> <<>>]
  /\ outq = [h \in Hart |-> <<>>]

To(h, s) == step' = [step EXCEPT ![h] = s]

Pack(h) ==
  /\ step[h] = "pack"
  /\ head' = [head EXCEPT ![h] = Points(h, pair[h])]
  /\ To(h, "send")
  /\ UNCHANGED <<pair, inq, outq>>

Send(h) ==
  /\ step[h] = "send"
  /\ inq' = [inq EXCEPT ![h] = Append(@, Request(h))]
  /\ To(h, "fetch")
  /\ UNCHANGED <<pair, head, outq>>

Fetch(h) ==
  /\ step[h] = "fetch"
  /\ outq[h] # <<>>
  /\ head' = [head EXCEPT ![h] = Head(outq[h])]
  /\ outq' = [outq EXCEPT ![h] = Tail(@)]
  /\ To(h, "merge")
  /\ UNCHANGED <<pair, inq>>

Merge(h) ==
  /\ step[h] = "merge"
  /\ pair' = [pair EXCEPT ![h] = @ + 1]
  /\ To(h, IF pair[h] + 1 < PAIRS THEN "pack" ELSE "done")
  /\ UNCHANGED <<head, inq, outq>>

Search(h) ==
  /\ inq[h] # <<>>
  /\ outq' = [outq EXCEPT ![h] = Append(@, Indices(Head(inq[h])))]
  /\ inq' = [inq EXCEPT ![h] = Tail(@)]
  /\ UNCHANGED <<step, pair, head>>

Advance(h) == Pack(h) \/ Send(h) \/ Fetch(h) \/ Merge(h)

ASNext == \E h \in Hart : Advance(h) \/ Search(h)

ASSafety == ASInit /\ [][ASNext]_asVars

ASFairness == \A h \in Hart : WF_asVars(Advance(h)) /\ WF_asVars(Search(h))

ASSpec == ASSafety /\ ASFairness
=============================================================================
