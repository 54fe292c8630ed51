-------------------------- MODULE SearcherNetProofs --------------------------
(***************************************************************************)
(* What holds in the network of the searcher threads for any capacity of   *)
(* its channels and any client.                                            *)
(*                                                                         *)
(* The argument: every channel has one writer and one reader, each at one  *)
(* place of its loop.  So the n-th token of every channel is that of       *)
(* request n, whatever the speed of the threads, if the tokens the client  *)
(* sends are (NetInv).                                                     *)
(***************************************************************************)
EXTENDS SearcherNet, SequenceTheorems, TLAPS

\* Who writes and who reads a channel, and where in its loop.
Writer ==
  [r_l |-> <<"CT", 3>>, r_r |-> <<"CT", 4>>, q_l |-> <<"CT", 5>>, q_r |-> <<"CT", 6>>,
   r_block |-> <<"L", 3>>, r_start_idx |-> <<"L", 4>>,
   q_block |-> <<"R", 3>>, q_start_idx |-> <<"R", 4>>,
   r_idx |-> <<"B", 5>>, q_idx |-> <<"B", 6>>,
   i_r |-> <<"client", 1>>, i_q |-> <<"client", 1>>,
   o_r_idx |-> <<"CT", 9>>, o_q_idx |-> <<"CT", 10>>]

Reader ==
  [r_l |-> <<"L", 1>>, q_l |-> <<"L", 2>>, r_r |-> <<"R", 1>>, q_r |-> <<"R", 2>>,
   r_block |-> <<"B", 1>>, q_block |-> <<"B", 2>>,
   r_start_idx |-> <<"B", 3>>, q_start_idx |-> <<"B", 4>>,
   r_idx |-> <<"CT", 7>>, q_idx |-> <<"CT", 8>>,
   i_r |-> <<"CT", 1>>, i_q |-> <<"CT", 2>>,
   o_r_idx |-> <<"client", 1>>, o_q_idx |-> <<"client", 1>>]

\* How often thread t has done operation p, after rd[t] whole rounds.
Done(rd, t, p) == rd[t] + (IF at[t] > p THEN 1 ELSE 0)

\* Tokens written to and read from channel c; the client has written w[c] and
\* read r[c] where no thread does.
Written(rd, w, c) == IF Writer[c][1] \in Threads THEN Done(rd, Writer[c][1], Writer[c][2]) ELSE w[c]
Taken(rd, r, c)   == IF Reader[c][1] \in Threads THEN Done(rd, Reader[c][1], Reader[c][2]) ELSE r[c]

\* s are the tokens from number m + 1 to number n.
Holds(s, n, m) ==
  /\ s \in Seq(SUBSET Nat) /\ n \in Nat /\ m \in Nat
  /\ n = m + Len(s)
  /\ \A i \in 1 .. Len(s) : s[i] = {m + i}

NetInv(rd, w, r) ==
  /\ rd \in [Threads -> Nat]
  /\ at = [t \in Threads |-> at[t]] /\ got = [t \in Threads |-> got[t]]
  /\ \A t \in Threads :
       /\ at[t] \in 1 .. Len(Program[t])
       /\ got[t] = IF at[t] = 1 THEN {} ELSE {rd[t] + 1}
  /\ chan = [c \in Channel |-> chan[c]]
  /\ \A c \in Channel :
       Len(chan[c]) <= CAPACITY /\ Holds(chan[c], Written(rd, w, c), Taken(rd, r, c))

-----------------------------------------------------------------------------

LEMMA PutHolds ==
  ASSUME NEW s, NEW n, NEW m, Holds(s, n, m)
  PROVE  Holds(Append(s, {n + 1}), n + 1, m)
<1>1. s \in Seq(SUBSET Nat) /\ {n + 1} \in SUBSET Nat /\ n \in Nat /\ m \in Nat
  BY DEF Holds
<1>2. /\ Append(s, {n + 1}) \in Seq(SUBSET Nat)
      /\ Len(Append(s, {n + 1})) = Len(s) + 1
      /\ \A i \in 1 .. Len(s) : Append(s, {n + 1})[i] = s[i]
      /\ Append(s, {n + 1})[Len(s) + 1] = {n + 1}
  BY <1>1, AppendProperties
<1>3. Len(s) \in Nat
  BY <1>1
<1> QED  BY <1>1, <1>2, <1>3 DEF Holds

LEMMA GetHolds ==
  ASSUME NEW s, NEW n, NEW m, Holds(s, n, m), s # <<>>
  PROVE  Head(s) = {m + 1} /\ Holds(Tail(s), n, m + 1)
<1>1. s \in Seq(SUBSET Nat) /\ n \in Nat /\ m \in Nat /\ n = m + Len(s)
      /\ \A i \in 1 .. Len(s) : s[i] = {m + i}
  BY DEF Holds
<1>2. Len(s) \in Nat \ {0}
  BY <1>1, EmptySeq
<1>3. Head(s) = s[1] /\ 1 \in 1 .. Len(s)
  BY <1>1, <1>2
<1>4. /\ Tail(s) \in Seq(SUBSET Nat) /\ Len(Tail(s)) = Len(s) - 1
      /\ \A i \in 1 .. Len(Tail(s)) : Tail(s)[i] = s[i + 1]
  BY <1>1, HeadTailProperties
<1>5. \A i \in 1 .. Len(Tail(s)) : Tail(s)[i] = {m + 1 + i}
  BY <1>1, <1>2, <1>4
<1> QED  BY <1>1, <1>2, <1>3, <1>4, <1>5 DEF Holds

LEMMA Programs ==
  /\ Len(Program["L"]) = 4 /\ Len(Program["R"]) = 4
  /\ Len(Program["B"]) = 6 /\ Len(Program["CT"]) = 10
  /\ \A t \in Threads :
       /\ Len(Program[t]) \in Nat /\ Len(Program[t]) > 1
       /\ Len(Program[t]) = IF t = "CT" THEN 10 ELSE IF t = "B" THEN 6 ELSE 4
<1>1. /\ Len(Program["L"]) = 4 /\ Len(Program["R"]) = 4
      /\ Len(Program["B"]) = 6 /\ Len(Program["CT"]) = 10
  BY DEF Program, ProgramL, ProgramR, ProgramB, ProgramCT
<1>2. ASSUME NEW t \in Threads
      PROVE  /\ Len(Program[t]) \in Nat /\ Len(Program[t]) > 1
             /\ Len(Program[t]) = IF t = "CT" THEN 10 ELSE IF t = "B" THEN 6 ELSE 4
  <2>1. t = "L" \/ t = "R" \/ t = "B" \/ t = "CT"
    BY SearcherNetAssumption
  <2>2. CASE t = "L"
    BY <2>2 DEF Program, ProgramL
  <2>3. CASE t = "R"
    BY <2>3 DEF Program, ProgramR
  <2>4. CASE t = "B"
    BY <2>4 DEF Program, ProgramB
  <2>5. CASE t = "CT"
    BY <2>5 DEF Program, ProgramCT
  <2> QED  BY <2>1, <2>2, <2>3, <2>4, <2>5
<1> QED  BY <1>1, <1>2

\* The tables are those of the programs.
LEMMA ReaderTable ==
  ASSUME NEW c \in Channel, Reader[c][1] \in Threads
  PROVE  /\ Reader[c][2] \in 1 .. Len(Program[Reader[c][1]])
         /\ Program[Reader[c][1]][Reader[c][2]] = Get(c)
<1>1. CASE c \in {"o_r_idx", "o_q_idx"}
  BY <1>1, SearcherNetAssumption DEF Reader
<1>2. CASE c = "r_l"
  BY <1>2, Programs DEF Reader, Program, ProgramL
<1>3. CASE c = "q_l"
  BY <1>3, Programs DEF Reader, Program, ProgramL
<1>4. CASE c = "r_r"
  BY <1>4, Programs DEF Reader, Program, ProgramR
<1>5. CASE c = "q_r"
  BY <1>5, Programs DEF Reader, Program, ProgramR
<1>6. CASE c = "r_block"
  BY <1>6, Programs DEF Reader, Program, ProgramB
<1>7. CASE c = "q_block"
  BY <1>7, Programs DEF Reader, Program, ProgramB
<1>8. CASE c = "r_start_idx"
  BY <1>8, Programs DEF Reader, Program, ProgramB
<1>9. CASE c = "q_start_idx"
  BY <1>9, Programs DEF Reader, Program, ProgramB
<1>10. CASE c = "r_idx"
  BY <1>10, Programs DEF Reader, Program, ProgramCT
<1>11. CASE c = "q_idx"
  BY <1>11, Programs DEF Reader, Program, ProgramCT
<1>12. CASE c = "i_r"
  BY <1>12, Programs DEF Reader, Program, ProgramCT
<1>13. CASE c = "i_q"
  BY <1>13, Programs DEF Reader, Program, ProgramCT
<1> QED
  BY <1>1, <1>2, <1>3, <1>4, <1>5, <1>6, <1>7, <1>8, <1>9,
     <1>10, <1>11, <1>12, <1>13 DEF Channel

LEMMA WriterTable ==
  ASSUME NEW c \in Channel, Writer[c][1] \in Threads
  PROVE  /\ Writer[c][2] \in 1 .. Len(Program[Writer[c][1]])
         /\ Program[Writer[c][1]][Writer[c][2]] = Put(c)
<1>1. CASE c \in {"i_r", "i_q"}
  BY <1>1, SearcherNetAssumption DEF Writer
<1>2. CASE c = "r_block"
  BY <1>2, Programs DEF Writer, Program, ProgramL
<1>3. CASE c = "r_start_idx"
  BY <1>3, Programs DEF Writer, Program, ProgramL
<1>4. CASE c = "q_block"
  BY <1>4, Programs DEF Writer, Program, ProgramR
<1>5. CASE c = "q_start_idx"
  BY <1>5, Programs DEF Writer, Program, ProgramR
<1>6. CASE c = "r_idx"
  BY <1>6, Programs DEF Writer, Program, ProgramB
<1>7. CASE c = "q_idx"
  BY <1>7, Programs DEF Writer, Program, ProgramB
<1>8. CASE c = "r_l"
  BY <1>8, Programs DEF Writer, Program, ProgramCT
<1>9. CASE c = "r_r"
  BY <1>9, Programs DEF Writer, Program, ProgramCT
<1>10. CASE c = "q_l"
  BY <1>10, Programs DEF Writer, Program, ProgramCT
<1>11. CASE c = "q_r"
  BY <1>11, Programs DEF Writer, Program, ProgramCT
<1>12. CASE c = "o_r_idx"
  BY <1>12, Programs DEF Writer, Program, ProgramCT
<1>13. CASE c = "o_q_idx"
  BY <1>13, Programs DEF Writer, Program, ProgramCT
<1> QED
  BY <1>1, <1>2, <1>3, <1>4, <1>5, <1>6, <1>7, <1>8, <1>9,
     <1>10, <1>11, <1>12, <1>13 DEF Channel

LEMMA Tables ==
  ASSUME NEW t \in Threads, NEW p \in 1 .. Len(Program[t]), NEW c \in Channel
  PROVE  /\ Program[t][p] = Get(c) => Reader[c] = <<t, p>>
         /\ Program[t][p] = Put(c) => Writer[c] = <<t, p>>
<1> USE DEF Get, Put
<1>1. CASE t = "L"
  <2>1. p \in {1, 2, 3, 4}
    BY <1>1, Programs
  <2> QED  BY <1>1, <2>1 DEF Channel, Program, ProgramL, Reader, Writer
<1>2. CASE t = "R"
  <2>1. p \in {1, 2, 3, 4}
    BY <1>2, Programs
  <2> QED  BY <1>2, <2>1 DEF Channel, Program, ProgramR, Reader, Writer
<1>3. CASE t = "B"
  <2>1. p \in {1, 2, 3, 4, 5, 6}
    BY <1>3, Programs
  <2> QED  BY <1>3, <2>1 DEF Channel, Program, ProgramB, Reader, Writer
<1>4. CASE t = "CT"
  <2>1. p \in {1, 2, 3, 4, 5, 6, 7, 8, 9, 10}
    BY <1>4, Programs
  <2> QED  BY <1>4, <2>1 DEF Channel, Program, ProgramCT, Reader, Writer
<1> QED  BY <1>1, <1>2, <1>3, <1>4, SearcherNetAssumption
-----------------------------------------------------------------------------

\* Thread t goes on to its next operation, with data of request rd[t] + 1.
Moves(rd, t) ==
  /\ at' = [at EXCEPT ![t] = IF at[t] = Len(Program[t]) THEN 1 ELSE @ + 1]
  /\ got' = [got EXCEPT ![t] = IF at[t] = Len(Program[t]) THEN {} ELSE {rd[t] + 1}]

\* What that makes of the counts: a thread counts an operation when it has done
\* it, also at the end of its round.
Counted(rd, rd2, t) ==
  /\ at' = [u \in Threads |-> at'[u]] /\ got' = [u \in Threads |-> got'[u]]
  /\ \A u \in Threads \ {t} : at'[u] = at[u] /\ got'[u] = got[u] /\ rd2[u] = rd[u]
  /\ at'[t] \in 1 .. Len(Program[t])
  /\ got'[t] = IF at'[t] = 1 THEN {} ELSE {rd2[t] + 1}
  /\ \A p \in 1 .. Len(Program[t]) :
       rd2[t] + (IF at'[t] > p THEN 1 ELSE 0) = Done(rd, t, p) + (IF p = at[t] THEN 1 ELSE 0)

LEMMA AdvanceDone ==
  ASSUME NEW rd, NEW w, NEW r, NetInv(rd, w, r), NEW t \in Threads, Moves(rd, t)
  PROVE  \E rd2 \in [Threads -> Nat] : Counted(rd, rd2, t)
<1> DEFINE last == at[t] = Len(Program[t])
           rd2 == [rd EXCEPT ![t] = IF last THEN @ + 1 ELSE @]
<1>1. /\ at' = [at EXCEPT ![t] = IF last THEN 1 ELSE @ + 1]
      /\ got' = [got EXCEPT ![t] = IF last THEN {} ELSE {rd[t] + 1}]
  BY DEF Moves
<1>2. /\ rd \in [Threads -> Nat] /\ at[t] \in 1 .. Len(Program[t])
      /\ at = [u \in Threads |-> at[u]] /\ got = [u \in Threads |-> got[u]]
  BY DEF NetInv
<1>3. Len(Program[t]) \in Nat /\ Len(Program[t]) > 1
  BY Programs
<1>4. rd2 \in [Threads -> Nat] /\ rd2[t] = IF last THEN rd[t] + 1 ELSE rd[t]
  BY <1>2
<1>5. at'[t] = (IF last THEN 1 ELSE at[t] + 1) /\ got'[t] = IF last THEN {} ELSE {rd[t] + 1}
  BY <1>1, <1>2
<1>6. at' = [u \in Threads |-> at'[u]] /\ got' = [u \in Threads |-> got'[u]]
      /\ \A u \in Threads \ {t} : at'[u] = at[u] /\ got'[u] = got[u] /\ rd2[u] = rd[u]
  BY <1>1, <1>2
<1> HIDE DEF rd2
<1>7. at'[t] \in 1 .. Len(Program[t])
      /\ got'[t] = IF at'[t] = 1 THEN {} ELSE {rd2[t] + 1}
  <2>1. CASE last
    BY <1>2, <1>3, <1>5, <2>1
  <2>2. CASE ~last
    BY <1>2, <1>3, <1>4, <1>5, <2>2
  <2> QED  BY <2>1, <2>2
<1>8. \A p \in 1 .. Len(Program[t]) :
        rd2[t] + (IF at'[t] > p THEN 1 ELSE 0)
          = Done(rd, t, p) + (IF p = at[t] THEN 1 ELSE 0)
  BY <1>2, <1>3, <1>4, <1>5 DEF Done
<1> QED  BY <1>4, <1>6, <1>7, <1>8 DEF Counted

LEMMA RunNetInv ==
  ASSUME NEW rd, NEW w, NEW r, NetInv(rd, w, r), NEW t \in Threads, Run(t)
  PROVE  \E rd2 : NetInv(rd2, w, r)'
<1> DEFINE p == at[t]
<1>1. p \in 1 .. Len(Program[t]) /\ rd[t] \in Nat /\ chan = [d \in Channel |-> chan[d]]
      /\ got[t] = IF p = 1 THEN {} ELSE {rd[t] + 1}
  BY DEF NetInv
<1>2. \A d \in Channel :
        Len(chan[d]) <= CAPACITY /\ Holds(chan[d], Written(rd, w, d), Taken(rd, r, d))
  BY DEF NetInv
<1>3. Done(rd, t, p) = rd[t]
  BY <1>1 DEF Done
<1>4. ASSUME NEW rd2 \in [Threads -> Nat], NEW d \in Channel, Counted(rd, rd2, t)
      PROVE  /\ Written(rd2, w, d)' = Written(rd, w, d) + (IF Writer[d] = <<t, p>> THEN 1 ELSE 0)
             /\ Taken(rd2, r, d)' = Taken(rd, r, d) + (IF Reader[d] = <<t, p>> THEN 1 ELSE 0)
  <2>1. Written(rd, w, d) \in Nat /\ Taken(rd, r, d) \in Nat
    BY <1>2 DEF Holds
  <2>2. Written(rd2, w, d)' = Written(rd, w, d) + (IF Writer[d] = <<t, p>> THEN 1 ELSE 0)
    <3>1. CASE Writer[d][1] = t
      <4>1. Writer[d][2] \in 1 .. Len(Program[t]) /\ (Writer[d] = <<t, p>> <=> Writer[d][2] = p)
        BY <3>1, WriterTable DEF Writer, Channel
      <4> QED  BY <1>4, <3>1, <4>1 DEF Counted, Written, Done
    <3>2. CASE Writer[d][1] # t
      BY <1>4, <2>1, <3>2 DEF Counted, Written, Done
    <3> QED  BY <3>1, <3>2
  <2>3. Taken(rd2, r, d)' = Taken(rd, r, d) + (IF Reader[d] = <<t, p>> THEN 1 ELSE 0)
    <3>1. CASE Reader[d][1] = t
      <4>1. Reader[d][2] \in 1 .. Len(Program[t]) /\ (Reader[d] = <<t, p>> <=> Reader[d][2] = p)
        BY <3>1, ReaderTable DEF Reader, Channel
      <4> QED  BY <1>4, <3>1, <4>1 DEF Counted, Taken, Done
    <3>2. CASE Reader[d][1] # t
      BY <1>4, <2>1, <3>2 DEF Counted, Taken, Done
    <3> QED  BY <3>1, <3>2
  <2> QED  BY <2>2, <2>3
<1>5. CASE Read(t)
  <2>1. PICK c \in Channel :
          /\ Program[t][p] = Get(c) /\ chan[c] # <<>> /\ chan' = [chan EXCEPT ![c] = Tail(@)]
          /\ Advance(t, got[t] \cup Head(chan[c]))
    BY <1>5 DEF Read, Receive
  <2>2. Reader[c] = <<t, p>>
    BY <1>1, <2>1, Tables
  <2>3. Taken(rd, r, c) = rd[t]
    BY <1>3, <2>2 DEF Taken
  <2>4. Head(chan[c]) = {rd[t] + 1} /\ Holds(Tail(chan[c]), Written(rd, w, c), rd[t] + 1)
    BY <1>2, <2>1, <2>3, GetHolds
  <2>5. got[t] \cup Head(chan[c]) = {rd[t] + 1}
    BY <1>1, <2>4
  <2>6. PICK rd2 \in [Threads -> Nat] : Counted(rd, rd2, t)
    <3>1. Moves(rd, t)
      BY <2>1, <2>5 DEF Advance, Moves
    <3> QED  BY <3>1, AdvanceDone
  <2>7. \A d \in Channel : Writer[d] # <<t, p>> /\ (Reader[d] = <<t, p>> => d = c)
    <3>1. \A d \in Channel : Writer[d] = <<t, p>> => Program[t][p] = Put(d)
      BY WriterTable
    <3>2. \A d \in Channel : Reader[d] = <<t, p>> => Program[t][p] = Get(d)
      BY ReaderTable
    <3> QED  BY <2>1, <3>1, <3>2 DEF Get, Put
  <2>8. ASSUME NEW d \in Channel
        PROVE  Len(chan'[d]) <= CAPACITY /\ Holds(chan'[d], Written(rd2, w, d)', Taken(rd2, r, d)')
    <3>1. CASE d = c
      <4>1. chan'[c] = Tail(chan[c])
        BY <1>1, <2>1
      <4>2. Written(rd2, w, c)' = Written(rd, w, c) /\ Taken(rd2, r, c)' = rd[t] + 1
        <5>1. Written(rd, w, c) \in Nat
          BY <1>2 DEF Holds
        <5>2. /\ Written(rd2, w, c)' = Written(rd, w, c) + (IF Writer[c] = <<t, p>> THEN 1 ELSE 0)
              /\ Taken(rd2, r, c)' = Taken(rd, r, c) + (IF Reader[c] = <<t, p>> THEN 1 ELSE 0)
          BY <1>4, <2>6
        <5> QED  BY <2>2, <2>3, <2>7, <5>1, <5>2
      <4>3. Len(Tail(chan[c])) <= CAPACITY
        <5>1. Len(chan[c]) \in Nat /\ Len(Tail(chan[c])) = Len(chan[c]) - 1
          BY <1>2, <2>1, HeadTailProperties DEF Holds
        <5> QED  BY <1>2, <5>1, SearcherNetAssumption
      <4> QED  BY <2>4, <3>1, <4>1, <4>2, <4>3
    <3>2. CASE d # c
      <4>1. chan'[d] = chan[d]
        BY <1>1, <2>1, <3>2
      <4>2. Written(rd2, w, d)' = Written(rd, w, d) /\ Taken(rd2, r, d)' = Taken(rd, r, d)
        <5>1. Written(rd, w, d) \in Nat /\ Taken(rd, r, d) \in Nat
          BY <1>2 DEF Holds
        <5> QED  BY <1>4, <2>6, <2>7, <3>2, <5>1
      <4> QED  BY <1>2, <4>1, <4>2
    <3> QED  BY <3>1, <3>2
  <2>9. chan' = [d \in Channel |-> chan'[d]]
    BY <1>1, <2>1
  <2>10. \A u \in Threads :
          /\ at'[u] \in 1 .. Len(Program[u])
          /\ got'[u] = IF at'[u] = 1 THEN {} ELSE {rd2[u] + 1}
    BY <2>6 DEF Counted, NetInv
  <2> QED  BY <2>6, <2>8, <2>9, <2>10 DEF Counted, NetInv
<1>6. CASE Write(t)
  <2>1. PICK c \in Channel :
          /\ Program[t][p] = Put(c) /\ Len(chan[c]) < CAPACITY
          /\ chan' = [chan EXCEPT ![c] = Append(@, got[t])]
          /\ Advance(t, got[t])
    BY <1>6 DEF Write, Send
  <2>2. Writer[c] = <<t, p>>
    BY <1>1, <2>1, Tables
  <2>3. Written(rd, w, c) = rd[t]
    BY <1>3, <2>2 DEF Written
  <2>4. got[t] = {rd[t] + 1}
    <3>1. Program[t][1] = Get("r_l") \/ Program[t][1] = Get("r_r")
          \/ Program[t][1] = Get("r_block") \/ Program[t][1] = Get("i_r")
      BY SearcherNetAssumption DEF Program, ProgramL, ProgramR, ProgramB, ProgramCT
    <3>2. p # 1
      BY <2>1, <3>1 DEF Get, Put
    <3> QED  BY <1>1, <3>2
  <2>5. Holds(Append(chan[c], got[t]), rd[t] + 1, Taken(rd, r, c))
    BY <1>2, <2>3, <2>4, PutHolds
  <2>6. PICK rd2 \in [Threads -> Nat] : Counted(rd, rd2, t)
    <3>1. Moves(rd, t)
      BY <2>1, <2>4 DEF Advance, Moves
    <3> QED  BY <3>1, AdvanceDone
  <2>7. \A d \in Channel : Reader[d] # <<t, p>> /\ (Writer[d] = <<t, p>> => d = c)
    <3>1. \A d \in Channel : Writer[d] = <<t, p>> => Program[t][p] = Put(d)
      BY WriterTable
    <3>2. \A d \in Channel : Reader[d] = <<t, p>> => Program[t][p] = Get(d)
      BY ReaderTable
    <3> QED  BY <2>1, <3>1, <3>2 DEF Get, Put
  <2>8. ASSUME NEW d \in Channel
        PROVE  Len(chan'[d]) <= CAPACITY /\ Holds(chan'[d], Written(rd2, w, d)', Taken(rd2, r, d)')
    <3>1. CASE d = c
      <4>1. chan'[c] = Append(chan[c], got[t])
        BY <1>1, <2>1
      <4>2. Written(rd2, w, c)' = rd[t] + 1 /\ Taken(rd2, r, c)' = Taken(rd, r, c)
        <5>1. Taken(rd, r, c) \in Nat
          BY <1>2 DEF Holds
        <5>2. /\ Written(rd2, w, c)' = Written(rd, w, c) + (IF Writer[c] = <<t, p>> THEN 1 ELSE 0)
              /\ Taken(rd2, r, c)' = Taken(rd, r, c) + (IF Reader[c] = <<t, p>> THEN 1 ELSE 0)
          BY <1>4, <2>6
        <5> QED  BY <2>2, <2>3, <2>7, <5>1, <5>2
      <4>3. Len(Append(chan[c], got[t])) <= CAPACITY
        <5>1. chan[c] \in Seq(SUBSET Nat) /\ got[t] \in SUBSET Nat
          BY <1>1, <1>2, <2>4 DEF Holds
        <5>2. Len(Append(chan[c], got[t])) = Len(chan[c]) + 1
          BY <5>1, AppendProperties
        <5> QED  BY <2>1, <5>1, <5>2, SearcherNetAssumption
      <4> QED  BY <2>5, <3>1, <4>1, <4>2, <4>3
    <3>2. CASE d # c
      <4>1. chan'[d] = chan[d]
        BY <1>1, <2>1, <3>2
      <4>2. Written(rd2, w, d)' = Written(rd, w, d) /\ Taken(rd2, r, d)' = Taken(rd, r, d)
        <5>1. Written(rd, w, d) \in Nat /\ Taken(rd, r, d) \in Nat
          BY <1>2 DEF Holds
        <5> QED  BY <1>4, <2>6, <2>7, <3>2, <5>1
      <4> QED  BY <1>2, <4>1, <4>2
    <3> QED  BY <3>1, <3>2
  <2>9. chan' = [d \in Channel |-> chan'[d]]
    BY <1>1, <2>1
  <2>10. \A u \in Threads :
          /\ at'[u] \in 1 .. Len(Program[u])
          /\ got'[u] = IF at'[u] = 1 THEN {} ELSE {rd2[u] + 1}
    BY <2>6 DEF Counted, NetInv
  <2> QED  BY <2>6, <2>8, <2>9, <2>10 DEF Counted, NetInv
<1> QED  BY <1>5, <1>6 DEF Run
-----------------------------------------------------------------------------
(* What a client does to the counts.                                       *)

LEMMA InitNetInv ==
  ASSUME NetInit
  PROVE  NetInv([t \in Threads |-> 0], [c \in Channel |-> 0], [c \in Channel |-> 0])
<1> DEFINE rd == [t \in Threads |-> 0]
           z == [c \in Channel |-> 0]
<1>1. /\ at = [t \in Threads |-> at[t]] /\ got = [t \in Threads |-> got[t]]
      /\ chan = [c \in Channel |-> chan[c]]
      /\ \A t \in Threads : at[t] = 1 /\ got[t] = {}
      /\ \A c \in Channel : chan[c] = <<>>
  BY DEF NetInit
<1>2. ASSUME NEW t \in Threads PROVE at[t] \in 1 .. Len(Program[t])
  <2>1. at[t] = 1 /\ Len(Program[t]) \in Nat /\ Len(Program[t]) > 1
    BY <1>1, Programs
  <2> QED  BY <2>1
<1>3. ASSUME NEW c \in Channel
      PROVE  Len(chan[c]) <= CAPACITY /\ Holds(chan[c], Written(rd, z, c), Taken(rd, z, c))
  <2>1. Written(rd, z, c) = 0
    <3>1. Writer[c][1] \in Threads => ~(1 > Writer[c][2])
      <4>1. ASSUME Writer[c][1] \in Threads PROVE Writer[c][2] \in Nat /\ Writer[c][2] >= 1
        BY <4>1, WriterTable, Programs
      <4> QED  BY <4>1
    <3> QED  BY <1>1, <3>1 DEF Written, Done
  <2>2. Taken(rd, z, c) = 0
    <3>1. Reader[c][1] \in Threads => ~(1 > Reader[c][2])
      <4>1. ASSUME Reader[c][1] \in Threads PROVE Reader[c][2] \in Nat /\ Reader[c][2] >= 1
        BY <4>1, ReaderTable, Programs
      <4> QED  BY <4>1
    <3> QED  BY <1>1, <3>1 DEF Taken, Done
  <2>3. chan[c] \in Seq(SUBSET Nat) /\ Len(chan[c]) = 0
    <3>1. chan[c] = <<>>
      BY <1>1
    <3> QED  BY <3>1, EmptySeq
  <2> QED  BY <2>1, <2>2, <2>3, SearcherNetAssumption DEF Holds
<1> QED  BY <1>1, <1>2, <1>3 DEF NetInv

LEMMA ClientPut ==
  ASSUME NEW rd, NEW w \in [Channel -> Nat], NEW r, NetInv(rd, w, r),
         NEW c \in Channel, Writer[c][1] \notin Threads, Len(chan[c]) < CAPACITY,
         chan' = [chan EXCEPT ![c] = Append(@, {w[c] + 1})], UNCHANGED <<at, got>>
  PROVE  NetInv(rd, [w EXCEPT ![c] = @ + 1], r)'
<1> DEFINE w2 == [w EXCEPT ![c] = @ + 1]
<1>1. /\ at = [t \in Threads |-> at[t]] /\ got = [t \in Threads |-> got[t]]
      /\ chan = [d \in Channel |-> chan[d]] /\ rd \in [Threads -> Nat]
      /\ \A d \in Channel :
           Len(chan[d]) <= CAPACITY /\ Holds(chan[d], Written(rd, w, d), Taken(rd, r, d))
  BY DEF NetInv
<1>2. chan' = [d \in Channel |-> chan'[d]] /\ chan'[c] = Append(chan[c], {w[c] + 1})
      /\ \A d \in Channel \ {c} : chan'[d] = chan[d]
  BY <1>1
<1>3. w2[c] = w[c] + 1 /\ \A d \in Channel \ {c} : w2[d] = w[d]
  OBVIOUS
<1> HIDE DEF w2
<1>4. ASSUME NEW d \in Channel
      PROVE  Taken(rd, r, d)' = Taken(rd, r, d)
             /\ Written(rd, w2, d)' = IF d = c THEN w[c] + 1 ELSE Written(rd, w, d)
  BY <1>3 DEF Taken, Written, Done
<1>5. ASSUME NEW d \in Channel
      PROVE  Len(chan'[d]) <= CAPACITY /\ Holds(chan'[d], Written(rd, w2, d)', Taken(rd, r, d)')
  <2>1. CASE d = c
    <3>1. Written(rd, w, c) = w[c]
      BY DEF Written
    <3>2. Holds(chan'[c], w[c] + 1, Taken(rd, r, c))
      BY <1>1, <1>2, <3>1, PutHolds
    <3>3. chan[c] \in Seq(SUBSET Nat) /\ {w[c] + 1} \in SUBSET Nat
      BY <1>1 DEF Holds
    <3>4. Len(chan'[c]) = Len(chan[c]) + 1 /\ Len(chan[c]) \in Nat
      BY <1>2, <3>3, AppendProperties
    <3> QED  BY <1>4, <2>1, <3>2, <3>4, SearcherNetAssumption
  <2>2. CASE d # c
    BY <1>1, <1>2, <1>4, <2>2
  <2> QED  BY <2>1, <2>2
<1> QED  BY <1>1, <1>2, <1>5 DEF NetInv, w2

LEMMA ClientGet ==
  ASSUME NEW rd, NEW w, NEW r \in [Channel -> Nat], NetInv(rd, w, r),
         NEW c \in Channel, Reader[c][1] \notin Threads, chan[c] # <<>>,
         chan' = [chan EXCEPT ![c] = Tail(@)], UNCHANGED <<at, got>>
  PROVE  Head(chan[c]) = {r[c] + 1} /\ NetInv(rd, w, [r EXCEPT ![c] = @ + 1])'
<1> DEFINE r2 == [r EXCEPT ![c] = @ + 1]
<1>1. /\ at = [t \in Threads |-> at[t]] /\ got = [t \in Threads |-> got[t]]
      /\ chan = [d \in Channel |-> chan[d]] /\ rd \in [Threads -> Nat]
      /\ \A d \in Channel :
           Len(chan[d]) <= CAPACITY /\ Holds(chan[d], Written(rd, w, d), Taken(rd, r, d))
  BY DEF NetInv
<1>2. chan' = [d \in Channel |-> chan'[d]] /\ chan'[c] = Tail(chan[c])
      /\ \A d \in Channel \ {c} : chan'[d] = chan[d]
  BY <1>1
<1>3. r2[c] = r[c] + 1 /\ \A d \in Channel \ {c} : r2[d] = r[d]
  OBVIOUS
<1> HIDE DEF r2
<1>4. ASSUME NEW d \in Channel
      PROVE  Written(rd, w, d)' = Written(rd, w, d)
             /\ Taken(rd, r2, d)' = IF d = c THEN r[c] + 1 ELSE Taken(rd, r, d)
  BY <1>3 DEF Taken, Written, Done
<1>5. Head(chan[c]) = {r[c] + 1} /\ Holds(Tail(chan[c]), Written(rd, w, c), r[c] + 1)
  <2>1. Taken(rd, r, c) = r[c]
    BY DEF Taken
  <2> QED  BY <1>1, <2>1, GetHolds
<1>6. ASSUME NEW d \in Channel
      PROVE  Len(chan'[d]) <= CAPACITY /\ Holds(chan'[d], Written(rd, w, d)', Taken(rd, r2, d)')
  <2>1. CASE d = c
    <3>1. Len(chan[c]) \in Nat /\ Len(Tail(chan[c])) = Len(chan[c]) - 1
      BY <1>1, HeadTailProperties DEF Holds
    <3> QED  BY <1>1, <1>2, <1>4, <1>5, <2>1, <3>1, SearcherNetAssumption
  <2>2. CASE d # c
    BY <1>1, <1>2, <1>4, <2>2
  <2> QED  BY <2>1, <2>2
<1> QED  BY <1>1, <1>2, <1>5, <1>6 DEF NetInv, r2

-----------------------------------------------------------------------------

\* What the network owes its clients.
LEMMA NetInvSafe ==
  ASSUME NEW rd, NEW w, NEW r, NetInv(rd, w, r)
  PROVE  NetTypeOK /\ InStep
<1>1. /\ rd \in [Threads -> Nat]
      /\ at = [t \in Threads |-> at[t]] /\ got = [t \in Threads |-> got[t]]
      /\ \A t \in Threads :
           /\ at[t] \in 1 .. Len(Program[t])
           /\ got[t] = IF at[t] = 1 THEN {} ELSE {rd[t] + 1}
      /\ chan = [c \in Channel |-> chan[c]]
  BY DEF NetInv
<1>2. \A c \in Channel :
        /\ Len(chan[c]) <= CAPACITY /\ chan[c] \in Seq(SUBSET Nat)
        /\ \A i \in 1 .. Len(chan[c]) : \E m : chan[c][i] = {m}
  <2>1. ASSUME NEW c \in Channel
        PROVE  Len(chan[c]) <= CAPACITY /\ Holds(chan[c], Written(rd, w, c), Taken(rd, r, c))
    BY DEF NetInv
  <2>2. ASSUME NEW s, NEW n, NEW m, Holds(s, n, m)
        PROVE  s \in Seq(SUBSET Nat) /\ \A i \in 1 .. Len(s) : \E k : s[i] = {k}
    <3>1. ASSUME NEW i \in 1 .. Len(s) PROVE s[i] = {m + i}
      BY <2>2 DEF Holds
    <3> QED  BY <2>2, <3>1 DEF Holds
  <2> QED  BY <2>1, <2>2
<1>3. ASSUME NEW t \in Threads PROVE DOMAIN Program[t] = 1 .. Len(Program[t])
  <2>1. t = "L" \/ t = "R" \/ t = "B" \/ t = "CT"
    BY SearcherNetAssumption
  <2>2. CASE t = "L"
    BY <2>2 DEF Program, ProgramL
  <2>3. CASE t = "R"
    BY <2>3 DEF Program, ProgramR
  <2>4. CASE t = "B"
    BY <2>4 DEF Program, ProgramB
  <2>5. CASE t = "CT"
    BY <2>5 DEF Program, ProgramCT
  <2> QED  BY <2>1, <2>2, <2>3, <2>4, <2>5
<1>4. NetTypeOK
  <2>1. chan \in [Channel -> Seq(SUBSET Nat)]
    BY <1>1, <1>2
  <2>2. ASSUME NEW t \in Threads
        PROVE  at[t] \in Nat /\ at[t] \in DOMAIN Program[t] /\ got[t] \in SUBSET Nat
    <3>1. at[t] \in DOMAIN Program[t]
      BY <1>1, <1>3
    <3>2. at[t] \in Nat
      BY <1>1
    <3>3. got[t] \in SUBSET Nat
      BY <1>1
    <3> QED  BY <3>1, <3>2, <3>3
  <2>3. at \in [Threads -> Nat] /\ got \in [Threads -> SUBSET Nat]
    BY <1>1, <2>2
  <2> QED  BY <1>2, <2>1, <2>2, <2>3 DEF NetTypeOK
<1>5. InStep
  <2>1. \A c \in Channel : DOMAIN chan[c] = 1 .. Len(chan[c])
    BY <1>2
  <2>2. \A t \in Threads : \A k, l \in got[t] : k = l
    BY <1>1
  <2> QED  BY <1>2, <2>1, <2>2 DEF InStep
<1> QED  BY <1>4, <1>5

-----------------------------------------------------------------------------
(* The requests that have come in and are not answered, as a queue.        *)

\* The requests m + 1 .. n.
Line(m, n) == [i \in 1 .. n - m |-> {m + i}]

LEMMA Lines ==
  ASSUME NEW m \in Nat, NEW n \in Nat, m <= n
  PROVE  /\ Line(m, n + 1) = Append(Line(m, n), {n + 1})
         /\ m < n => /\ Line(m, n) # <<>> /\ Head(Line(m, n)) = {m + 1}
                     /\ Tail(Line(m, n)) = Line(m + 1, n)
<1>1. Line(m, n) \in Seq(SUBSET Nat) /\ Len(Line(m, n)) = n - m
      /\ \A i \in 1 .. n - m : Line(m, n)[i] = {m + i}
  BY SMT DEF Line
<1>2. Line(m, n + 1) = Append(Line(m, n), {n + 1})
  <2>1. {n + 1} \in SUBSET Nat
    OBVIOUS
  <2>2. /\ Append(Line(m, n), {n + 1}) \in Seq(SUBSET Nat)
        /\ Len(Append(Line(m, n), {n + 1})) = n - m + 1
        /\ \A i \in 1 .. n - m : Append(Line(m, n), {n + 1})[i] = Line(m, n)[i]
        /\ Append(Line(m, n), {n + 1})[n - m + 1] = {n + 1}
    BY <1>1, <2>1, AppendProperties
  <2>3. /\ Line(m, n + 1) \in Seq(SUBSET Nat) /\ Len(Line(m, n + 1)) = n - m + 1
        /\ \A i \in 1 .. n - m + 1 : Line(m, n + 1)[i] = {m + i}
    BY SMT DEF Line
  <2>4. ASSUME NEW i \in 1 .. n - m + 1
        PROVE  Line(m, n + 1)[i] = Append(Line(m, n), {n + 1})[i]
    <3>1. Line(m, n + 1)[i] = {m + i}
      BY <2>3
    <3>2. CASE i \in 1 .. n - m
      BY <1>1, <2>2, <3>1, <3>2
    <3>3. CASE i = n - m + 1
      <4>1. m + i = n + 1
        BY <3>3
      <4>2. Append(Line(m, n), {n + 1})[i] = {n + 1}
        BY <2>2, <3>3
      <4> QED  BY <3>1, <4>1, <4>2
    <3>4. i \in 1 .. n - m \/ i = n - m + 1
      OBVIOUS
    <3> QED  BY <3>2, <3>3, <3>4
  <2> QED  BY <2>2, <2>3, <2>4, SeqEqual
<1>3. ASSUME m < n
      PROVE  /\ Line(m, n) # <<>> /\ Head(Line(m, n)) = {m + 1}
             /\ Tail(Line(m, n)) = Line(m + 1, n)
  <2>1. Line(m, n) # <<>>
    BY <1>1, <1>3, EmptySeq
  <2>2. Head(Line(m, n)) = {m + 1}
    BY <1>1, <1>3, <2>1
  <2>3. /\ Tail(Line(m, n)) \in Seq(SUBSET Nat) /\ Len(Tail(Line(m, n))) = n - m - 1
        /\ \A i \in 1 .. n - m - 1 : Tail(Line(m, n))[i] = Line(m, n)[i + 1]
    BY <1>1, <2>1, HeadTailProperties
  <2>4. /\ Line(m + 1, n) \in Seq(SUBSET Nat) /\ Len(Line(m + 1, n)) = n - m - 1
        /\ \A i \in 1 .. n - m - 1 : Line(m + 1, n)[i] = {m + 1 + i}
    BY <1>3, SMT DEF Line
  <2>5. ASSUME NEW i \in 1 .. n - m - 1 PROVE Tail(Line(m, n))[i] = Line(m + 1, n)[i]
    <3>1. Line(m, n)[i + 1] = {m + (i + 1)}
      BY <1>1, <1>3
    <3>2. m + (i + 1) = m + 1 + i
      OBVIOUS
    <3> QED  BY <2>3, <2>4, <3>1, <3>2
  <2> QED  BY <2>1, <2>2, <2>3, <2>4, <2>5, SeqEqual
<1> QED  BY <1>2, <1>3
=============================================================================
